---- MODULE Spec2Model ----
(***************************************************************************)
(* Model of the shell-completion subsystem of CoreCLI:                     *)
(*   - sync (commands/subs/dev/completion.py): staleness check and         *)
(*     regeneration of commands/autogen/completion.sh;                     *)
(*   - ModularCompletionRegistry (commands/utils/completion.py): discovery *)
(*     of the per-module completers and the routing of a dotted path;      *)
(*   - the completers of the build, dev, package, proj, release modules;   *)
(*   - the completion function emitted by generate_completion_case and     *)
(*     generate_completion_script, by what it computes when bash runs it,  *)
(*     and what a shell makes of the artifact when it sources it;          *)
(*   - get_command_info (commands/utils/completion.py): extraction of the  *)
(*     command tree from a click command graph;                            *)
(*   - the completion test battery (commands/tests/test_cmd_completion.py) *)
(*     and the command `dev completion test` that runs it.                 *)
(*   - the recursions of get_command_info and generate_completion_case,    *)
(*     call by call, and two sync processes running side by side.          *)
(* Strings are TLA+ strings; TLC evaluates Len, SubSeq and \o on them, so  *)
(* prefix tests, splitting and joining are computed character by           *)
(* character, as the code computes them.                                   *)
(***************************************************************************)
EXTENDS Integers, Sequences, FiniteSets, TLC

VARIABLES
    clock,      \* the system clock the filesystem stamps modifications with
    srcExists,  \* source file -> whether it exists
    srcMtime,   \* source file -> st_mtime
    srcVer,     \* number of source modifications so far (names the tree)
    artifact,   \* commands/autogen/completion.sh: [exists, mtime, content, seen]
    run,        \* process -> the state of its sync call
    last,       \* the sync call that finished last
    reg,        \* the registry process: discovery state and the registry
    req,        \* the completion request being resolved and its outcome
    gen,        \* the generated function: tree, command line, COMPREPLY
    shell,      \* the shell session that sources the artifact
    info,       \* the command graph and what get_command_info made of it
    test,       \* the completion test battery and the command that runs it
    walk        \* a traversal of a command tree, one call or return at a time

vars == <<clock, srcExists, srcMtime, srcVer, artifact, run, last, reg, req, gen, shell,
          info, test, walk>>

syncVars == <<clock, srcExists, srcMtime, srcVer, artifact, run, last>>

regVars == <<reg, req, gen, shell, info, test, walk>>

extVars == <<info, test, walk>>

(***************************************************************************)
(* Bounds of the model.                                                    *)
(***************************************************************************)
MaxClock == 2
MaxSubs == 1
MaxTouches == 2
MaxLoads == 2
MaxExtra == 2
MaxTyped == 4

(***************************************************************************)
(* String helpers: Python's str.startswith, str.split and str.join.        *)
(***************************************************************************)
startswith(s, p) == Len(p) <= Len(s) /\ SubSeq(s, 1, Len(p)) = p

\* Position of the first occurrence of pat in s at or after position i,
\* 0 when there is none.
RECURSIVE find(_, _, _)
find(s, pat, i) ==
    IF i + Len(pat) - 1 > Len(s) THEN 0
    ELSE IF SubSeq(s, i, i + Len(pat) - 1) = pat THEN i
    ELSE find(s, pat, i + 1)

RECURSIVE split(_, _)
split(s, sep) ==
    LET k == find(s, sep, 1) IN
    IF k = 0 THEN <<s>>
    ELSE <<SubSeq(s, 1, k - 1)>> \o split(SubSeq(s, k + Len(sep), Len(s)), sep)

RECURSIVE join(_, _)
join(sep, parts) ==
    IF parts = <<>> THEN ""
    ELSE IF Len(parts) = 1 THEN parts[1]
    ELSE parts[1] \o sep \o join(sep, Tail(parts))

Front(q) == SubSeq(q, 1, Len(q) - 1)

RECURSIVE SeqFilterPrefix(_, _)
SeqFilterPrefix(q, p) ==
    IF q = <<>> THEN <<>>
    ELSE (IF startswith(q[1], p) THEN <<q[1]>> ELSE <<>>) \o SeqFilterPrefix(Tail(q), p)

Range(q) == {q[i] : i \in 1..Len(q)}

(***************************************************************************)
(* sync: commands/subs/dev/completion.py                                   *)
(***************************************************************************)
Procs == {"p1", "p2"}

CompletionPath == -1
MainPy == 0
SubFiles == 1..MaxSubs
Sources == {MainPy} \cup SubFiles

\* rglob("*.py") under commands/subs: the files that exist there, in
\* directory order.
RECURSIVE rglob(_, _)
rglob(ex, i) ==
    IF i > MaxSubs THEN <<>>
    ELSE (IF ex[i] THEN <<i>> ELSE <<>>) \o rglob(ex, i + 1)

command_files(ex) == <<MainPy>> \o rglob(ex, 1)

\* The generator expression of needs_update, consumed by any(): the files
\* are visited in list order, a missing file is skipped, stat() on a file
\* in `bad` raises, and the first newer file ends the scan.
\* Mutant: a file as old as the artifact counts as newer.
RECURSIVE any_newer_or_equal(_, _, _, _, _)
any_newer_or_equal(files, ex, mt, completion_mtime, bad) ==
    IF files = <<>> THEN "false"
    ELSE IF ~ex[files[1]] THEN any_newer_or_equal(Tail(files), ex, mt, completion_mtime, bad)
    ELSE IF files[1] \in bad THEN "raise"
    ELSE IF mt[files[1]] >= completion_mtime THEN "true"
    ELSE any_newer_or_equal(Tail(files), ex, mt, completion_mtime, bad)

RECURSIVE any_newer(_, _, _, _, _)
any_newer(files, ex, mt, completion_mtime, bad) ==
    IF files = <<>> THEN "false"
    ELSE IF ~ex[files[1]] THEN any_newer(Tail(files), ex, mt, completion_mtime, bad)
    ELSE IF files[1] \in bad THEN "raise"
    ELSE IF mt[files[1]] > completion_mtime THEN "true"
    ELSE any_newer(Tail(files), ex, mt, completion_mtime, bad)

\* Mutant: the scan leaves out commands/main.py.
needs_update_subs_only(art, ex, mt, bad) ==
    IF art.exists
    THEN IF CompletionPath \in bad THEN "raise"
         ELSE LET r == any_newer(Tail(command_files(ex)), ex, mt, art.mtime, bad) IN
              IF r = "raise" THEN "raise"
              ELSE IF r = "true" THEN "regenerate" ELSE "uptodate"
    ELSE "regenerate"

\* Lines 54-67: "uptodate", "regenerate" or "raise".

needs_update(art, ex, mt, bad) ==
    IF art.exists
    THEN IF CompletionPath \in bad THEN "raise"
         ELSE LET r == any_newer(command_files(ex), ex, mt, art.mtime, bad) IN
              IF r = "raise" THEN "raise"
              ELSE IF r = "true" THEN "regenerate" ELSE "uptodate"
    ELSE "regenerate"

\* How the process ends (commands/main.py main, with click's standalone
\* mode): a return exits 0, sys.exit(1) exits 1, an exception that leaves
\* sync is caught by main, which exits 1.
\* Mutant: main reports the exception and returns.
main_swallows(ended) == IF ended \in {"return", "exception"} THEN 0 ELSE 1

main(ended) == IF ended = "return" THEN 0 ELSE 1

\* File contents: no text (a missing or just truncated file) or a script.
NoText == ""

\* seen is history, not a field of the file: the number of source saves that
\* had happened when the file was last written.
Absent == [exists |-> FALSE, mtime |-> 0, content |-> NoText, seen |-> 0]

\* before is history: the artifact as the call found it.
Idle == [pc |-> "idle", script |-> NoText, wrote |-> FALSE,
         dirty |-> FALSE, outcome |-> "none", status |-> -1, before |-> Absent,
         offset |-> 0]

\* Lines 182-183 of commands/utils/completion.py: the second and third line
\* of every generated script (the trademark sign of the comment left out).
HeaderComment == "# Auto-generated completion script for ehAye Core CLI"
LoadedMarker == "export _ehaye_cli_completions_loaded=1"

\* The text generate_completion_script returns for the tree of source
\* version v: the header, then the function, which depends on the tree.
ScriptOf(v) ==
    "#!/bin/bash\n" \o HeaderComment \o "\n" \o LoadedMarker \o "\n\n"
    \o "_ehaye_cli_completions() # of tree " \o ToString(v) \o "\n"

\* Python's str.replace: every occurrence, left to right, without overlap.
str_replace(s, old, new) == join(new, split(s, old))

\* Lines 85-88: the marker is added after the header comment.
add_loaded_marker(completion_script) ==
    str_replace(completion_script, HeaderComment, HeaderComment \o "\n" \o LoadedMarker)

Finish(r, outcome, ended) ==
    [r EXCEPT !.pc = "done", !.outcome = outcome, !.status = main(ended)]

\* sync is entered: lines 45-69.  `exclusive` is the single invocation the
\* design expects (section 5): no other sync is running.
sync_check(p, bad, exclusive) ==
    /\ run[p].pc = "idle"
    /\ exclusive => \A q \in Procs : run[q].pc = "idle"
    /\ LET d == needs_update(artifact, srcExists, srcMtime, bad)
           entered == [Idle EXCEPT !.before = artifact]
       IN run' = [run EXCEPT ![p] =
                    IF d = "raise" THEN Finish(entered, "stat_error", "exception")
                    ELSE IF d = "uptodate" THEN Finish(entered, "uptodate", "return")
                    ELSE [entered EXCEPT !.pc = "regen"]]
    /\ UNCHANGED <<clock, srcExists, srcMtime, srcVer, artifact, last>>
    /\ UNCHANGED regVars

\* Lines 71-88: extraction, synthesis and the marker inside the try block; an exception
\* is reported and the process exits 1 (lines 98-100).
sync_generate(p, fault) ==
    /\ run[p].pc = "regen"
    /\ run' = [run EXCEPT ![p] =
                 IF fault = "none" THEN [@ EXCEPT !.pc = "open", !.script = add_loaded_marker(ScriptOf(srcVer))]
                 ELSE Finish(@, fault, "sys.exit(1)")]
    /\ UNCHANGED <<clock, srcExists, srcMtime, srcVer, artifact, last>>
    /\ UNCHANGED regVars

\* Line 91, first half: write_text opens the file for writing, which
\* creates or truncates it; a failure to open leaves the file as it was.
sync_open(p, fault) ==
    /\ run[p].pc = "open"
    /\ IF fault = "none"
       THEN /\ artifact' = [exists |-> TRUE, mtime |-> clock, content |-> NoText, seen |-> srcVer]
            /\ run' = [run EXCEPT ![p] = [@ EXCEPT !.pc = "write", !.wrote = TRUE]]
       ELSE /\ artifact' = artifact
            /\ run' = [run EXCEPT ![p] = Finish(@, "open_error", "sys.exit(1)")]
    /\ UNCHANGED <<clock, srcExists, srcMtime, srcVer, last>>
    /\ UNCHANGED regVars

\* What a file holds where nothing was written: a byte no script contains.
Hole == "@"

RECURSIVE Holes(_)
Holes(n) == IF n = 0 THEN "" ELSE Hole \o Holes(n - 1)

\* Mutant: the file is open for appending, every write goes to its end.
pwrite_append(content, offset, data) == content \o data

\* write(2) of data at the file position offset of the process: the file is
\* extended with a hole when it is shorter than the position.
pwrite(content, offset, data) ==
    LET padded == IF Len(content) < offset
                  THEN content \o Holes(offset - Len(content)) ELSE content
    IN SubSeq(padded, 1, offset) \o data
       \o SubSeq(padded, offset + Len(data) + 1, Len(padded))

\* Line 91, in between: the buffer of the file object is flushed to the file
\* in blocks; the first block of a text of two goes out.
sync_write_block(p) ==
    /\ run[p].pc = "write"
    /\ run[p].offset = 0
    /\ LET k == Len(run[p].script) \div 2
       IN /\ artifact' = [artifact EXCEPT
                             !.content = pwrite(@, 0, SubSeq(run[p].script, 1, k)),
                             !.mtime = clock, !.seen = srcVer]
          /\ run' = [run EXCEPT ![p].offset = k]
    /\ UNCHANGED <<clock, srcExists, srcMtime, srcVer, last>>
    /\ UNCHANGED regVars

\* Line 91, second half, and lines 93-96: what is left of the text is
\* written and the file closed; a failure leaves what is in the file.
sync_write(p, fault) ==
    /\ run[p].pc = "write"
    /\ IF fault = "none"
       THEN /\ artifact' = [exists |-> TRUE, mtime |-> clock,
                             content |-> pwrite(artifact.content, run[p].offset,
                                                SubSeq(run[p].script, run[p].offset + 1,
                                                       Len(run[p].script))),
                             seen |-> srcVer]
            /\ run' = [run EXCEPT ![p] = Finish(@, "generated", "return")]
       ELSE /\ artifact' = artifact
            /\ run' = [run EXCEPT ![p] = Finish(@, "write_error", "sys.exit(1)")]
    /\ UNCHANGED <<clock, srcExists, srcMtime, srcVer, last>>
    /\ UNCHANGED regVars

\* The process ends; the call is recorded.
sync_exit(p) ==
    /\ run[p].pc = "done"
    /\ last' = [run[p] EXCEPT !.pc = "ended"]
    /\ run' = [run EXCEPT ![p] = Idle]
    /\ UNCHANGED <<clock, srcExists, srcMtime, srcVer, artifact>>
    /\ UNCHANGED regVars

\* The environment: time passes, and a developer saves a source file, which
\* stamps it with the current time.  A save is remembered by every running
\* call and by the last finished one.
Tick ==
    /\ clock < MaxClock
    /\ clock' = clock + 1
    /\ UNCHANGED <<srcExists, srcMtime, srcVer, artifact, run, last>>
    /\ UNCHANGED regVars

Touch(f) ==
    /\ srcVer < MaxTouches
    /\ srcVer' = srcVer + 1
    /\ srcExists' = [srcExists EXCEPT ![f] = TRUE]
    /\ srcMtime' = [srcMtime EXCEPT ![f] = clock]
    /\ run' = [p \in Procs |-> IF run[p].pc = "idle" THEN run[p]
                               ELSE [run[p] EXCEPT !.dirty = TRUE]]
    /\ last' = IF last.pc = "ended" THEN [last EXCEPT !.dirty = TRUE] ELSE last
    /\ UNCHANGED <<clock, artifact>>
    /\ UNCHANGED regVars

StatFaults == {{}} \cup {{f} : f \in Sources \cup {CompletionPath}}
GenFaults == {"none", "extract_error", "synth_error"}
IoFaults == {"none", "error"}


(***************************************************************************)
(* The completers of the command modules: commands/subs/*/completion.py.   *)
(* A completer is called with (ctx, args, incomplete); ctx is not read.    *)
(* env is what a completer reads from outside: the .py files and the       *)
(* directories under the working directory, and what `git branch` did.     *)
(***************************************************************************)
Take(q, n) == SubSeq(q, 1, IF Len(q) < n THEN Len(q) ELSE n)

Last(q) == q[Len(q)]

IsSpace(c) == c \in {" ", "\n", "\t"}

RECURSIVE lstrip(_)
lstrip(s) == IF Len(s) > 0 /\ IsSpace(SubSeq(s, 1, 1)) THEN lstrip(SubSeq(s, 2, Len(s))) ELSE s

RECURSIVE rstrip(_)
rstrip(s) ==
    IF Len(s) > 0 /\ IsSpace(SubSeq(s, Len(s), Len(s))) THEN rstrip(SubSeq(s, 1, Len(s) - 1)) ELSE s

strip(s) == lstrip(rstrip(s))

\* The name of a file: the last component of its path.
basename(path) == Last(split(path, "/"))

RECURSIVE SeqFilterTests(_)
SeqFilterTests(q) ==
    IF q = <<>> THEN <<>>
    ELSE (IF startswith(basename(q[1]), "test_") THEN <<q[1]>> ELSE <<>>) \o SeqFilterTests(Tail(q))

RECURSIVE SeqFilterVisible(_)
SeqFilterVisible(q) ==
    IF q = <<>> THEN <<>>
    ELSE (IF ~startswith(q[1], ".") THEN <<q[1]>> ELSE <<>>) \o SeqFilterVisible(Tail(q))

\* ---- commands/subs/build/completion.py
build_complete_all(args, incomplete, env) ==
    IF startswith(incomplete, "-")
    THEN SeqFilterPrefix(<<"--parallel", "--clean", "--verbose">>, incomplete)
    ELSE <<>>

complete_clean(args, incomplete, env) ==
    IF startswith(incomplete, "-")
    THEN SeqFilterPrefix(<<"--force", "--cache", "--all">>, incomplete)
    ELSE <<>>

complete_component(args, incomplete, env) ==
    IF args = <<>>
    THEN SeqFilterPrefix(<<"frontend", "backend", "docs", "tests", "assets">>, incomplete)
    ELSE IF startswith(incomplete, "-")
    THEN SeqFilterPrefix(<<"--watch", "--debug", "--production">>, incomplete)
    ELSE <<>>

get_build_completions(args, incomplete, env) ==
    IF args = <<>> \/ args[1] = "build"
    THEN SeqFilterPrefix(<<"all", "clean", "component">>, incomplete)
    ELSE IF args[1] = "component" THEN complete_component(Tail(args), incomplete, env)
    ELSE IF args[1] = "clean" THEN complete_clean(Tail(args), incomplete, env)
    ELSE <<>>

\* ---- commands/subs/dev/completion.py
dev_complete_all(args, incomplete, env) ==
    IF startswith(incomplete, "-")
    THEN SeqFilterPrefix(<<"--verbose", "--quiet", "--stop-on-error">>, incomplete)
    ELSE <<>>

complete_format(args, incomplete, env) ==
    IF startswith(incomplete, "-")
    THEN SeqFilterPrefix(<<"--check", "--diff", "--verbose">>, incomplete)
    ELSE Take(SeqFilterPrefix(env.py_files, incomplete), 10)

complete_lint(args, incomplete, env) ==
    IF startswith(incomplete, "-")
    THEN SeqFilterPrefix(<<"--fix", "--show-fixes", "--verbose">>, incomplete)
    ELSE Take(SeqFilterPrefix(env.py_files, incomplete), 10)

complete_typecheck(args, incomplete, env) ==
    IF startswith(incomplete, "-")
    THEN SeqFilterPrefix(<<"--strict", "--ignore-missing-imports", "--verbose">>, incomplete)
    ELSE SeqFilterPrefix(SeqFilterVisible(env.dirs), incomplete)

complete_test(args, incomplete, env) ==
    IF startswith(incomplete, "-")
    THEN SeqFilterPrefix(<<"--coverage", "--verbose", "--failfast", "--parallel">>, incomplete)
    ELSE Take(SeqFilterPrefix(SeqFilterTests(env.py_files), incomplete), 10)

complete_precommit(args, incomplete, env) ==
    IF startswith(incomplete, "-")
    THEN SeqFilterPrefix(<<"--fix", "--ci", "--verbose">>, incomplete)
    ELSE <<>>

complete_completion_cmd(args, incomplete, env) ==
    IF args = <<>> THEN SeqFilterPrefix(<<"test", "sync">>, incomplete) ELSE <<>>

get_dev_completions(args, incomplete, env) ==
    IF args = <<>> \/ args[1] = "dev"
    THEN SeqFilterPrefix(<<"all", "format", "lint", "typecheck", "test", "precommit",
                           "completion">>, incomplete)
    ELSE IF args[1] = "format" THEN complete_format(Tail(args), incomplete, env)
    ELSE IF args[1] = "lint" THEN complete_lint(Tail(args), incomplete, env)
    ELSE IF args[1] = "typecheck" THEN complete_typecheck(Tail(args), incomplete, env)
    ELSE IF args[1] = "test" THEN complete_test(Tail(args), incomplete, env)
    ELSE IF args[1] = "precommit" THEN complete_precommit(Tail(args), incomplete, env)
    ELSE IF args[1] = "completion" THEN complete_completion_cmd(Tail(args), incomplete, env)
    ELSE <<>>

\* ---- commands/subs/package/completion.py
complete_build(args, incomplete, env) ==
    IF startswith(incomplete, "-")
    THEN SeqFilterPrefix(<<"--format", "--output", "--version">>, incomplete)
    ELSE IF args # <<>> /\ Last(args) = "--format"
    THEN SeqFilterPrefix(<<"wheel", "sdist", "tar", "zip", "deb", "rpm">>, incomplete)
    ELSE <<>>

complete_dist(args, incomplete, env) ==
    IF startswith(incomplete, "-")
    THEN SeqFilterPrefix(<<"--upload", "--repository", "--sign">>, incomplete)
    ELSE IF args # <<>> /\ Last(args) = "--repository"
    THEN SeqFilterPrefix(<<"pypi", "testpypi", "local", "private">>, incomplete)
    ELSE <<>>

package_complete_list(args, incomplete, env) ==
    IF startswith(incomplete, "-")
    THEN SeqFilterPrefix(<<"--installed", "--available", "--outdated", "--format">>, incomplete)
    ELSE IF args # <<>> /\ Last(args) = "--format"
    THEN SeqFilterPrefix(<<"table", "json", "yaml", "csv">>, incomplete)
    ELSE <<>>

get_package_completions(args, incomplete, env) ==
    IF args = <<>> \/ args[1] = "package"
    THEN SeqFilterPrefix(<<"build", "dist", "list">>, incomplete)
    ELSE IF args[1] = "build" THEN complete_build(Tail(args), incomplete, env)
    ELSE IF args[1] = "dist" THEN complete_dist(Tail(args), incomplete, env)
    ELSE IF args[1] = "list" THEN package_complete_list(Tail(args), incomplete, env)
    ELSE <<>>

\* ---- commands/subs/proj/completion.py
get_proj_completions(args, incomplete, env) ==
    IF args = <<>> \/ args[1] = "proj"
    THEN SeqFilterPrefix(<<"info", "size", "stats">>, incomplete)
    ELSE <<>>

complete_info(args, incomplete, env) == <<>>

complete_size(args, incomplete, env) == <<>>

complete_stats(args, incomplete, env) == <<>>

\* ---- commands/subs/release/completion.py
\* subprocess.run(["git", "branch", ...]) either raises SubprocessError or
\* FileNotFoundError, which are caught, or returns a returncode and stdout.
complete_create(args, incomplete, env) ==
    IF startswith(incomplete, "-")
    THEN SeqFilterPrefix(<<"--version", "--tag", "--branch", "--draft", "--prerelease">>,
                         incomplete)
    ELSE IF args # <<>> /\ Last(args) = "--version"
    THEN SeqFilterPrefix(<<"major", "minor", "patch", "1.0.0", "0.1.0">>, incomplete)
    ELSE IF args # <<>> /\ Last(args) = "--branch"
    THEN IF env.git.raised = "none" /\ env.git.returncode = 0
         THEN SeqFilterPrefix(split(strip(env.git.stdout), "\n"), incomplete)
         ELSE <<"main", "master", "develop">>
    ELSE <<>>

complete_publish(args, incomplete, env) ==
    IF startswith(incomplete, "-")
    THEN SeqFilterPrefix(<<"--platform", "--channel", "--sign", "--verify">>, incomplete)
    ELSE IF args # <<>> /\ Last(args) = "--platform"
    THEN SeqFilterPrefix(<<"github", "pypi", "npm", "docker", "all">>, incomplete)
    ELSE IF args # <<>> /\ Last(args) = "--channel"
    THEN SeqFilterPrefix(<<"stable", "beta", "alpha", "nightly", "latest">>, incomplete)
    ELSE <<>>

release_complete_list(args, incomplete, env) ==
    IF startswith(incomplete, "-")
    THEN SeqFilterPrefix(<<"--all", "--latest", "--limit", "--format">>, incomplete)
    ELSE IF args # <<>> /\ Last(args) = "--format"
    THEN SeqFilterPrefix(<<"table", "json", "yaml", "markdown">>, incomplete)
    ELSE IF args # <<>> /\ Last(args) = "--limit"
    THEN SeqFilterPrefix(<<"5", "10", "20", "50", "100">>, incomplete)
    ELSE <<>>

get_release_completions(args, incomplete, env) ==
    IF args = <<>> \/ args[1] = "release"
    THEN SeqFilterPrefix(<<"create", "publish", "list">>, incomplete)
    ELSE IF args[1] = "create" THEN complete_create(Tail(args), incomplete, env)
    ELSE IF args[1] = "publish" THEN complete_publish(Tail(args), incomplete, env)
    ELSE IF args[1] = "list" THEN release_complete_list(Tail(args), incomplete, env)
    ELSE <<>>

\* The COMPLETIONS dictionary of each module, in insertion order: command
\* name and completer.
COMPLETIONS(module) ==
    CASE module = "build" ->
           << <<"build", "get_build_completions">>, <<"all", "build.complete_all">>,
              <<"clean", "complete_clean">>, <<"component", "complete_component">> >>
      [] module = "dev" ->
           << <<"dev", "get_dev_completions">>, <<"all", "dev.complete_all">>,
              <<"format", "complete_format">>, <<"lint", "complete_lint">>,
              <<"typecheck", "complete_typecheck">>, <<"test", "complete_test">>,
              <<"precommit", "complete_precommit">>,
              <<"completion", "complete_completion_cmd">> >>
      [] module = "package" ->
           << <<"package", "get_package_completions">>, <<"build", "complete_build">>,
              <<"dist", "complete_dist">>, <<"list", "package.complete_list">> >>
      [] module = "proj" ->
           << <<"proj", "get_proj_completions">>, <<"info", "complete_info">>,
              <<"size", "complete_size">>, <<"stats", "complete_stats">> >>
      [] module = "release" ->
           << <<"release", "get_release_completions">>, <<"create", "complete_create">>,
              <<"publish", "complete_publish">>, <<"list", "release.complete_list">> >>

\* completer(ctx, args, incomplete): the call of a registered function.
completer(c, args, incomplete, env) ==
    CASE c = "get_build_completions" -> get_build_completions(args, incomplete, env)
      [] c = "build.complete_all" -> build_complete_all(args, incomplete, env)
      [] c = "complete_clean" -> complete_clean(args, incomplete, env)
      [] c = "complete_component" -> complete_component(args, incomplete, env)
      [] c = "get_dev_completions" -> get_dev_completions(args, incomplete, env)
      [] c = "dev.complete_all" -> dev_complete_all(args, incomplete, env)
      [] c = "complete_format" -> complete_format(args, incomplete, env)
      [] c = "complete_lint" -> complete_lint(args, incomplete, env)
      [] c = "complete_typecheck" -> complete_typecheck(args, incomplete, env)
      [] c = "complete_test" -> complete_test(args, incomplete, env)
      [] c = "complete_precommit" -> complete_precommit(args, incomplete, env)
      [] c = "complete_completion_cmd" -> complete_completion_cmd(args, incomplete, env)
      [] c = "get_package_completions" -> get_package_completions(args, incomplete, env)
      [] c = "complete_build" -> complete_build(args, incomplete, env)
      [] c = "complete_dist" -> complete_dist(args, incomplete, env)
      [] c = "package.complete_list" -> package_complete_list(args, incomplete, env)
      [] c = "get_proj_completions" -> get_proj_completions(args, incomplete, env)
      [] c = "complete_info" -> complete_info(args, incomplete, env)
      [] c = "complete_size" -> complete_size(args, incomplete, env)
      [] c = "complete_stats" -> complete_stats(args, incomplete, env)
      [] c = "get_release_completions" -> get_release_completions(args, incomplete, env)
      [] c = "complete_create" -> complete_create(args, incomplete, env)
      [] c = "complete_publish" -> complete_publish(args, incomplete, env)
      [] c = "release.complete_list" -> release_complete_list(args, incomplete, env)

(***************************************************************************)
(* ModularCompletionRegistry: commands/utils/completion.py                 *)
(***************************************************************************)
Modules == {"build", "dev", "package", "proj", "release"}

\* commands/subs as iterdir() lists it: the five command packages, the
\* module proj.py and the interpreter's cache directory.
subs_dir ==
    << [name |-> "__pycache__", is_dir |-> TRUE, completion_py |-> FALSE],
       [name |-> "build", is_dir |-> TRUE, completion_py |-> TRUE],
       [name |-> "dev", is_dir |-> TRUE, completion_py |-> TRUE],
       [name |-> "package", is_dir |-> TRUE, completion_py |-> TRUE],
       [name |-> "proj", is_dir |-> TRUE, completion_py |-> TRUE],
       [name |-> "proj.py", is_dir |-> FALSE, completion_py |-> FALSE],
       [name |-> "release", is_dir |-> TRUE, completion_py |-> TRUE] >>

\* What importing commands.subs.<name>.completion and reading its
\* COMPLETIONS does: the module as the repository has it ("ok"), or a
\* contribution that is broken in one of four ways.
Health == {"ok", "ImportError", "SyntaxError", "no_COMPLETIONS", "COMPLETIONS_is_list"}

EmptyDict == [k \in {} |-> ""]

\* Lines 287-291: the loop over completions.items().
RECURSIVE register(_, _, _)
register(completions, name, items) ==
    IF items = <<>> THEN completions
    ELSE register(((name \o "." \o items[1][1]) :> items[1][2]) @@ completions,
                  name, Tail(items))

\* Lines 269-294: _load_completion_modules.  Only ImportError is caught; any
\* other exception leaves the loop and the constructor.
RECURSIVE _load_completion_modules(_, _, _)
_load_completion_modules(entries, health, completions) ==
    IF entries = <<>> THEN [raised |-> "none", completions |-> completions]
    ELSE LET subdir == entries[1] IN
         IF subdir.is_dir /\ ~startswith(subdir.name, "_") /\ subdir.completion_py
         THEN CASE health[subdir.name] = "ok" ->
                     _load_completion_modules(Tail(entries), health,
                         register(completions, subdir.name, COMPLETIONS(subdir.name)))
                [] health[subdir.name] = "ImportError" ->
                     _load_completion_modules(Tail(entries), health, completions)
                [] health[subdir.name] = "no_COMPLETIONS" ->
                     _load_completion_modules(Tail(entries), health, completions)
                [] health[subdir.name] = "SyntaxError" ->
                     [raised |-> "SyntaxError", completions |-> completions]
                [] health[subdir.name] = "COMPLETIONS_is_list" ->
                     [raised |-> "AttributeError", completions |-> completions]
         ELSE _load_completion_modules(Tail(entries), health, completions)

\* Mutant: the argument list is passed on without its first element.
resolve_shifted_args(completions, command_path, args, incomplete, env) ==
    IF command_path \in DOMAIN completions
    THEN [invoked |-> << <<completions[command_path], SubSeq(args, 2, Len(args)), incomplete>> >>,
          result |-> completer(completions[command_path], SubSeq(args, 2, Len(args)),
                               incomplete, env)]
    ELSE [invoked |-> <<>>, result |-> <<>>]

\* Mutant: no fallback to the parent path.
resolve_exact_only(completions, command_path, args, incomplete, env) ==
    IF command_path \in DOMAIN completions
    THEN [invoked |-> << <<completions[command_path], args, incomplete>> >>,
          result |-> completer(completions[command_path], args, incomplete, env)]
    ELSE [invoked |-> <<>>, result |-> <<>>]

\* Mutant: the fallback walks the whole chain of ancestors.
RECURSIVE resolve_full_chain(_, _, _, _, _)
resolve_full_chain(completions, command_path, args, incomplete, env) ==
    IF command_path \in DOMAIN completions
    THEN [invoked |-> << <<completions[command_path], args, incomplete>> >>,
          result |-> completer(completions[command_path], args, incomplete, env)]
    ELSE LET parts == split(command_path, ".") IN
         IF Len(parts) > 1
         THEN resolve_full_chain(completions, join(".", Front(parts)), args, incomplete, env)
         ELSE [invoked |-> <<>>, result |-> <<>>]

\* Lines 296-325: get_completions, as the completers it calls (with their
\* arguments) and the list it returns.  Every completer of the repository
\* returns a list, so the isinstance test of lines 314 and 323 passes.
resolve(completions, command_path, args, incomplete, env) ==
    IF command_path \in DOMAIN completions
    THEN [invoked |-> << <<completions[command_path], args, incomplete>> >>,
          result |-> completer(completions[command_path], args, incomplete, env)]
    ELSE LET parts == split(command_path, ".")
             parent_path == join(".", Front(parts))
         IN IF Len(parts) > 1 /\ parent_path \in DOMAIN completions
            THEN [invoked |-> << <<completions[parent_path], args, incomplete>> >>,
                  result |-> completer(completions[parent_path], args, incomplete, env)]
            ELSE [invoked |-> <<>>, result |-> <<>>]

NoEnv == [py_files |-> <<>>, dirs |-> <<>>,
          git |-> [raised |-> "FileNotFoundError", returncode |-> 0, stdout |-> ""]]

NoRequest == [pc |-> "none", op |-> "", command_path |-> "", args |-> <<>>,
              incomplete |-> "", env |-> NoEnv, invoked |-> <<>>, result |-> <<>>,
              raised |-> "none"]

NoRegistry(health) == [health |-> health, built |-> FALSE, completions |-> EmptyDict, loads |-> 0]

\* Lines 340-349 with the constructor, lines 264-267: the registry after
\* get_completion_registry(), and the exception it raised if any.
registry_after(r) ==
    IF r.built THEN [reg |-> r, raised |-> "none"]
    ELSE LET l == _load_completion_modules(subs_dir, r.health, EmptyDict) IN
         IF l.raised = "none"
         THEN [reg |-> [r EXCEPT !.built = TRUE, !.completions = l.completions,
                                 !.loads = @ + 1],
               raised |-> "none"]
         ELSE [reg |-> [r EXCEPT !.loads = @ + 1], raised |-> l.raised]

get_completion_registry ==
    /\ req.pc = "none"
    /\ reg.built \/ reg.loads < MaxLoads
    /\ LET g == registry_after(reg) IN
       /\ reg' = g.reg
       /\ req' = [NoRequest EXCEPT !.pc = "done", !.op = "get_completion_registry",
                                   !.raised = g.raised]
    /\ UNCHANGED syncVars
    /\ UNCHANGED extVars
    /\ UNCHANGED <<gen, shell>>

\* Mutant: a path answered by its parent's completer is registered under
\* its own name.
get_completions_caching(command_path, args, incomplete, env) ==
    /\ req.pc = "none"
    /\ reg.built
    /\ LET r == resolve(reg.completions, command_path, args, incomplete, env) IN
       /\ req' = [NoRequest EXCEPT !.pc = "done", !.op = "get_completions",
                                   !.command_path = command_path, !.args = args,
                                   !.incomplete = incomplete, !.env = env,
                                   !.invoked = r.invoked, !.result = r.result]
       /\ reg' = IF r.invoked # <<>> /\ command_path \notin DOMAIN reg.completions
                 THEN [reg EXCEPT !.completions = (command_path :> r.invoked[1][1]) @@ @]
                 ELSE reg
    /\ UNCHANGED syncVars
    /\ UNCHANGED extVars
    /\ UNCHANGED <<gen, shell>>

\* Lines 296-325, called on the registry get_completion_registry returned.
get_completions(command_path, args, incomplete, env) ==
    /\ req.pc = "none"
    /\ reg.built
    /\ LET r == resolve(reg.completions, command_path, args, incomplete, env) IN
       req' = [NoRequest EXCEPT !.pc = "done", !.op = "get_completions",
                                !.command_path = command_path, !.args = args,
                                !.incomplete = incomplete, !.env = env,
                                !.invoked = r.invoked, !.result = r.result]
    /\ UNCHANGED syncVars
    /\ UNCHANGED extVars
    /\ UNCHANGED <<reg, gen, shell>>

\* Lines 352-371.
get_modular_completions(args, incomplete, env) ==
    /\ req.pc = "none"
    /\ reg.built \/ reg.loads < MaxLoads
    /\ LET g == registry_after(reg)
           command_path == IF args # <<>> THEN join(".", args) ELSE ""
           r == resolve(g.reg.completions, command_path, args, incomplete, env)
           q == [NoRequest EXCEPT !.pc = "done", !.op = "get_modular_completions",
                                  !.command_path = command_path, !.args = args,
                                  !.incomplete = incomplete, !.env = env]
       IN /\ reg' = g.reg
          /\ req' = IF g.raised # "none" THEN [q EXCEPT !.raised = g.raised]
                    ELSE [q EXCEPT !.invoked = r.invoked, !.result = r.result]
    /\ UNCHANGED syncVars
    /\ UNCHANGED extVars
    /\ UNCHANGED <<gen, shell>>

\* The order of Python's str comparison over the characters of command
\* paths: by code point.
Alphabet == "-.0123456789_abcdefghijklmnopqrstuvwxyz"

ord(c) == find(Alphabet, c, 1)

RECURSIVE str_lt(_, _)
str_lt(a, b) ==
    IF b = "" THEN FALSE
    ELSE IF a = "" THEN TRUE
    ELSE IF SubSeq(a, 1, 1) = SubSeq(b, 1, 1)
         THEN str_lt(SubSeq(a, 2, Len(a)), SubSeq(b, 2, Len(b)))
    ELSE ord(SubSeq(a, 1, 1)) < ord(SubSeq(b, 1, 1))

\* sorted(keys): a new list, ascending.
RECURSIVE sorted(_)
sorted(keys) ==
    IF keys = {} THEN <<>>
    ELSE LET least == CHOOSE x \in keys : \A y \in keys \ {x} : str_lt(x, y)
         IN <<least>> \o sorted(keys \ {least})

\* Lines 327-333, called on the registry get_completion_registry returned.
get_available_commands ==
    /\ req.pc = "none"
    /\ reg.built
    /\ req' = [NoRequest EXCEPT !.pc = "done", !.op = "get_available_commands",
                                !.result = sorted(DOMAIN reg.completions)]
    /\ UNCHANGED syncVars
    /\ UNCHANGED extVars
    /\ UNCHANGED <<reg, gen, shell>>

\* The caller has its answer.
request_returns ==
    /\ req.pc = "done"
    /\ req' = NoRequest
    /\ UNCHANGED syncVars
    /\ UNCHANGED extVars
    /\ UNCHANGED <<reg, gen, shell>>

\* The inputs of the requests.
RECURSIVE Keys(_, _)
Keys(name, items) ==
    IF items = <<>> THEN {} ELSE {name \o "." \o items[1][1]} \cup Keys(name, Tail(items))

AllKeys == UNION {Keys(m, COMPLETIONS(m)) : m \in Modules}

RECURSIVE Extended(_, _)
Extended(paths, n) ==
    IF n = 0 THEN paths
    ELSE paths \cup Extended({p \o "." \o s : p \in paths, s \in {"extra", "format"}}, n - 1)

PathInputs == Extended(AllKeys \cup {"dev", "release"}, MaxExtra) \cup {"", "extra"}

ArgInputs == { <<>>, <<"--branch">>, <<"--version">>, <<"format", "--check">>, <<"dev">> }

ModularArgInputs ==
    { <<>>, <<"dev">>, <<"dev", "format">>, <<"dev", "format", "extra">>,
      <<"dev", "format", "extra", "more">>, <<"release", "create">>,
      <<"release", "create", "--branch">>, <<"release", "create", "--version">>,
      <<"dev", "dev", "test">>, <<"proj", "proj">> }

IncompleteInputs == {"", "-", "--v", "m", "t"}

EnvInputs ==
    { [py_files |-> <<"main.py", "tests/test_main.py">>, dirs |-> <<".git", "tests">>,
       git |-> g] :
      g \in { [raised |-> "FileNotFoundError", returncode |-> 0, stdout |-> ""],
              [raised |-> "none", returncode |-> 128, stdout |-> ""],
              [raised |-> "none", returncode |-> 0, stdout |-> "main\ntopic\n"] } }

(***************************************************************************)
(* The completion function: commands/utils/completion.py                   *)
(* generate_completion_script and generate_completion_case emit bash text; *)
(* the operators below are that text by what bash computes when it runs    *)
(* it, for the cli_info the text was generated from.  A node of cli_info   *)
(* is [name, options, subcommands]: options a sequence of [names,          *)
(* choices], subcommands the sequence of child nodes in insertion order.   *)
(* words is COMP_WORDS (words[0] of bash is words[1] here), cword is       *)
(* COMP_CWORD.  The operators are the body of the function, lines 186 to   *)
(* 239 of the template; its closing line 240 is emitted as `}}`, and what  *)
(* is modelled is what the body computes once the function is defined.     *)
(***************************************************************************)
\* words[i] of bash.
word(words, i) == words[i + 1]

\* [[ "$w" == -* ]] and [[ "$w" == --* ]]
is_dash(w) == startswith(w, "-")
is_dashdash(w) == startswith(w, "--")

\* ${s//pat/rep}: every match, left to right, without overlap.
RECURSIVE replace_all(_, _, _)
replace_all(s, pat, rep) ==
    LET k == find(s, pat, 1) IN
    IF k = 0 THEN s
    ELSE SubSeq(s, 1, k - 1) \o rep \o replace_all(SubSeq(s, k + Len(pat), Len(s)), pat, rep)

\* ${s## } and ${s%% }: one leading, one trailing space.
trim_leading(s) == IF startswith(s, " ") THEN SubSeq(s, 2, Len(s)) ELSE s
trim_trailing(s) ==
    IF Len(s) > 0 /\ SubSeq(s, Len(s), Len(s)) = " " THEN SubSeq(s, 1, Len(s) - 1) ELSE s

\* Word splitting of a -W list: the runs of non-blank characters.
RECURSIVE word_split(_)
word_split(s) ==
    LET t == lstrip(s)
        k == find(t, " ", 1)
    IN IF t = "" THEN <<>>
       ELSE IF k = 0 THEN <<t>>
       ELSE <<SubSeq(t, 1, k - 1)>> \o word_split(SubSeq(t, k + 1, Len(t)))

\* Mutant: compgen without the prefix filter.
compgen_W_unfiltered(wordlist, cur) == word_split(wordlist)

\* COMPREPLY=($(compgen -W "$wordlist" -- "$cur"))
compgen_W(wordlist, cur) == SeqFilterPrefix(word_split(wordlist), cur)

\* Mutant: the spellings of the options, last option first.
RECURSIVE option_names_reversed(_)
option_names_reversed(options) ==
    IF options = <<>> THEN <<>>
    ELSE option_names_reversed(Tail(options)) \o options[1].names

\* Lines 73-76 and 131-135: the spellings of all options, in order.
RECURSIVE option_names(_)
option_names(options) ==
    IF options = <<>> THEN <<>> ELSE options[1].names \o option_names(Tail(options))

\* Mutant: no arm is emitted for any spelling.
long_names_none(names) == <<>>

\* Lines 55-63: the arms of `case "${prev}"`: one per long spelling of an
\* option that has choices, as <<spelling, choices joined by blanks>>.
RECURSIVE long_names(_)
long_names(names) ==
    IF names = <<>> THEN <<>>
    ELSE (IF startswith(names[1], "--") THEN <<names[1]>> ELSE <<>>) \o long_names(Tail(names))

RECURSIVE choice_arms(_)
choice_arms(options) ==
    IF options = <<>> THEN <<>>
    ELSE (IF options[1].choices # <<>>
          THEN [i \in 1..Len(long_names(options[1].names)) |->
                   <<long_names(options[1].names)[i], join(" ", options[1].choices)>>]
          ELSE <<>>) \o choice_arms(Tail(options))

\* `case "$w" in`: the index of the first arm whose pattern is w, 0 if none.
RECURSIVE first_arm(_, _, _)
first_arm(patterns, w, i) ==
    IF i > Len(patterns) THEN 0
    ELSE IF patterns[i] = w THEN i
    ELSE first_arm(patterns, w, i + 1)

\* Lines 82-87: the first word after idx and before cword that does not
\* start with a dash and occurs in the blank-separated subcommands, "" if
\* there is none.
RECURSIVE scan_subcmd(_, _, _, _)
scan_subcmd(words, cword, subcommands, i) ==
    IF i >= cword THEN ""
    ELSE IF ~is_dash(word(words, i))
            /\ find(" " \o subcommands \o " ", " " \o word(words, i) \o " ", 1) > 0
         THEN word(words, i)
    ELSE scan_subcmd(words, cword, subcommands, i + 1)

\* Lines 82-87: the value of i at the loop's break, 0 if the loop ends
\* without one.
RECURSIVE scan_break(_, _, _, _)
scan_break(words, cword, subcommands, i) ==
    IF i >= cword THEN 0
    ELSE IF ~is_dash(word(words, i))
            /\ find(" " \o subcommands \o " ", " " \o word(words, i) \o " ", 1) > 0
         THEN i
    ELSE scan_break(words, cword, subcommands, i + 1)

\* Lines 112-116 (group arm, words matching -*) and 141-147, 157-163 (leaf
\* arm, words matching --*): the loop over "${words[@]}" that removes the
\* options already used.
RECURSIVE filter_used(_, _, _, _)
filter_used(available_opts, words, cur, long_only) ==
    IF words = <<>> THEN available_opts
    ELSE filter_used(
             IF (IF long_only THEN is_dashdash(words[1]) ELSE is_dash(words[1]))
                /\ words[1] # cur
             THEN replace_all(available_opts, " " \o words[1] \o " ", " ")
             ELSE available_opts,
             Tail(words), cur, long_only)

\* Lines 111-122, 140-151, 156-168: the remaining options, offered for the
\* prefix `prefix`.
offer_options(options_str, words, cur, long_only, prefix) ==
    compgen_W(trim_trailing(trim_leading(
                  filter_used(" " \o options_str \o " ", words, cur, long_only))),
              prefix)

names_of(nodes) == [i \in 1..Len(nodes) |-> nodes[i].name]

\* The text generate_completion_case(cmd_info, depth) returns, run with the
\* function's locals c = [words, cword, cur, prev, cmd_idx].  The answer is
\* COMPREPLY, the node that produced it and the branch taken; c.pos keeps
\* the positions of the words that selected the nodes of at.
RECURSIVE completion_case(_, _, _, _)
completion_case(cmd_info, depth, c, at) ==
    LET arms == choice_arms(cmd_info.options)
        arm == first_arm([i \in 1..Len(arms) |-> arms[i][1]], c.prev, 1)
        options_str == join(" ", option_names(cmd_info.options))
        subcommands == join(" ", names_of(cmd_info.subcommands))
        idx == c.cmd_idx + depth
        subcmd == scan_subcmd(c.words, c.cword, subcommands, idx + 1)
        child == first_arm(names_of(cmd_info.subcommands), subcmd, 1)
    IN
    IF cmd_info.options # <<>> /\ is_dashdash(c.prev) /\ arm > 0
    THEN [COMPREPLY |-> compgen_W(arms[arm][2], c.cur), at |-> at, pos |-> c.pos, how |-> "choices"]
    ELSE IF cmd_info.subcommands # <<>>
    THEN IF subcmd # ""
         THEN IF child > 0
              THEN completion_case(cmd_info.subcommands[child], depth + 1,
                                   [c EXCEPT !.pos = Append(@, scan_break(c.words, c.cword,
                                                                         subcommands, idx + 1))],
                                   Append(at, subcmd))
              ELSE [COMPREPLY |-> <<>>, at |-> at, pos |-> c.pos, how |-> "no_arm"]
         ELSE IF is_dash(c.cur)
         THEN [COMPREPLY |-> IF options_str # ""
                             THEN offer_options(options_str, c.words, c.cur, FALSE, c.cur)
                             ELSE <<>>,
               at |-> at, pos |-> c.pos, how |-> "group_options"]
         ELSE [COMPREPLY |-> compgen_W(subcommands, c.cur), at |-> at, pos |-> c.pos,
               how |-> "subcommands"]
    ELSE IF option_names(cmd_info.options) # <<>>
    THEN IF is_dash(c.cur)
         THEN [COMPREPLY |-> offer_options(options_str, c.words, c.cur, TRUE, c.cur),
               at |-> at, pos |-> c.pos, how |-> "leaf_options"]
         ELSE IF c.cur = ""
         THEN [COMPREPLY |-> offer_options(options_str, c.words, c.cur, TRUE, ""),
               at |-> at, pos |-> c.pos, how |-> "leaf_options"]
         ELSE [COMPREPLY |-> <<>>, at |-> at, pos |-> c.pos, how |-> "nothing"]
    ELSE [COMPREPLY |-> <<>>, at |-> at, pos |-> c.pos, how |-> "nothing"]

\* Lines 211-220: the first word before cword that does not start with a
\* dash, as <<cmd, cmd_idx>>.
RECURSIVE find_main_command(_, _, _)
find_main_command(words, cword, i) ==
    IF i >= cword THEN <<"", 1>>
    ELSE IF ~is_dash(word(words, i)) THEN <<word(words, i), i>>
    ELSE find_main_command(words, cword, i + 1)

\* Lines 181-240: the function generate_completion_script(cli_info) emits.
\* The arm `*)` is emitted with "${{cur}}", which bash rejects as a bad
\* substitution: it yields no candidate.
_ehaye_cli_completions(cli_info, words, cword) ==
    LET cur == word(words, cword)
        prev == word(words, cword - 1)
        commands == join(" ", names_of(cli_info.subcommands))
        found == find_main_command(words, cword, 1)
        c == [words |-> words, cword |-> cword, cur |-> cur, prev |-> prev,
              cmd_idx |-> found[2], pos |-> <<found[2]>>]
        arm == first_arm(names_of(cli_info.subcommands), found[1], 1)
    IN IF cword = 1
       THEN [COMPREPLY |-> compgen_W(commands, cur), at |-> <<>>, pos |-> <<>>,
             how |-> "commands"]
       ELSE IF arm > 0
       THEN completion_case(cli_info.subcommands[arm], 0, c, <<found[1]>>)
       ELSE [COMPREPLY |-> <<>>, at |-> <<>>, pos |-> <<>>, how |-> "fallback"]

\* The trees the function is generated from: a fixed shape of three root
\* commands, nested two groups deep, with the options of three of its nodes
\* drawn from OptionLists.
CheckFix == << [names |-> <<"-c", "--check">>, choices |-> <<>>],
               [names |-> <<"--fix">>, choices |-> <<>>] >>

Format == << [names |-> <<"-f", "--format">>, choices |-> <<"table", "json", "yaml">>],
             [names |-> <<"--check">>, choices |-> <<>>] >>

\* --format once more, with other choices than Format declares.
FormatAlt == << [names |-> <<"--format">>, choices |-> <<"text", "html">>] >>

OptionLists == { <<>>, CheckFix, Format, FormatAlt }

Node(name, options, subcommands) ==
    [name |-> name, options |-> options, subcommands |-> subcommands]

cli_info(o) ==
    Node("cli", << [names |-> <<"--debug">>, choices |-> <<>>] >>,
         << Node("alpha", o[1],
                 << Node("format", o[2], << Node("deep", o[3], <<>>) >>),
                    Node("beta", o[3], <<>>) >>),
            Node("beta", o[2], <<>>),
            Node("gamma", <<>>, <<>>) >>)

TypedInputs == {"alpha", "beta", "format", "deep", "-c", "--check", "--format"}

CurInputs == {"", "-", "--c", "j", "b"}

RECURSIVE SeqsUpTo(_, _)
SeqsUpTo(S, n) ==
    IF n = 0 THEN {<<>>}
    ELSE LET shorter == SeqsUpTo(S, n - 1) IN
         shorter \cup {Append(q, x) : q \in shorter, x \in S}

NoCompletion == [pc |-> "none", options |-> <<>>, words |-> <<>>, cword |-> 0, COMPREPLY |-> <<>>,
                 at |-> <<>>, pos |-> <<>>, how |-> ""]

\* The shell calls the function: the user has typed `cli`, the words of
\* typed and the partial word cur, with the cursor at its end.
complete(typed, cur) ==
    /\ gen.pc = "none"
    /\ LET words == <<"cli">> \o typed \o <<cur>>
           cword == Len(typed) + 1
           r == _ehaye_cli_completions(cli_info(gen.options), words, cword)
       IN gen' = [gen EXCEPT !.pc = "done", !.words = words, !.cword = cword,
                             !.COMPREPLY = r.COMPREPLY, !.at = r.at, !.pos = r.pos,
                             !.how = r.how]
    /\ UNCHANGED syncVars
    /\ UNCHANGED extVars
    /\ UNCHANGED <<reg, req, shell>>

\* The shell has shown the candidates.
complete_returns ==
    /\ gen.pc = "done"
    /\ gen' = [NoCompletion EXCEPT !.options = gen.options]
    /\ UNCHANGED syncVars
    /\ UNCHANGED extVars
    /\ UNCHANGED <<reg, req, shell>>

(***************************************************************************)
(* Extraction: get_command_info, lines 11-42.  A command of click is       *)
(* [class, name, help, params, commands]: help is <<>> for None, params    *)
(* the parameters in declaration order, commands the dict of a Group as    *)
(* the sequence of its <<registered name, command>> items.  A parameter is *)
(* [class, opts, type] and a type [class, name] with the choices of a      *)
(* click.Choice.  A dict of the result is the sequence of its items.       *)
(***************************************************************************)
BoolType == [class |-> "BoolParamType", name |-> "boolean"]
StringType == [class |-> "StringParamType", name |-> "text"]
PathType == [class |-> "Path", name |-> "path"]
ChoiceType(choices) == [class |-> "Choice", name |-> "choice", choices |-> choices]

Option(opts, type) == [class |-> "Option", opts |-> opts, type |-> type]
Argument(opts, type) == [class |-> "Argument", opts |-> opts, type |-> type]

Command(name, help, params) ==
    [class |-> "Command", name |-> name, help |-> help, params |-> params,
     commands |-> <<>>]

Group(name, help, params, commands) ==
    [class |-> "Group", name |-> name, help |-> help, params |-> params,
     commands |-> commands]

\* Mutant: every parameter is extracted, arguments included.
is_option_any(param) == TRUE

\* Line 22: isinstance(param, click.Option)
is_option(param) == param.class = "Option"

\* Mutant: the choices in sorted (here: reversed) rather than declared order.
RECURSIVE list_reversed(_)
list_reversed(choices) ==
    IF choices = <<>> THEN <<>> ELSE list_reversed(Tail(choices)) \o <<Head(choices)>>

\* Line 33: list(param.type.choices)
list(choices) == choices

\* Lines 23-35: the entry of one option.
opt_info(param) ==
    [names |-> param.opts,
     type |-> param.type.name,
     choices |-> IF param.type.class = "Choice" THEN list(param.type.choices) ELSE <<>>]

\* Lines 21-35: the entries of the options among params, in order.
RECURSIVE options_of(_)
options_of(params) ==
    IF params = <<>> THEN <<>>
    ELSE (IF is_option(params[1]) THEN <<opt_info(params[1])>> ELSE <<>>)
         \o options_of(Tail(params))

\* Lines 11-42.
RECURSIVE get_command_info(_)
get_command_info(cmd) ==
    [name |-> cmd.name,
     help |-> IF cmd.help = <<>> THEN "" ELSE cmd.help[1],
     options |-> options_of(cmd.params),
     subcommands |->
        IF cmd.class = "Group"
        THEN [i \in 1..Len(cmd.commands) |->
                 <<cmd.commands[i][1], get_command_info(cmd.commands[i][2])>>]
        ELSE <<>>]

\* The command graphs extraction is applied to.
Flag == Option(<<"--debug">>, BoolType)
FormatOption == Option(<<"-f", "--format">>, ChoiceType(<<"table", "json", "yaml">>))
NameOption == Option(<<"--name">>, StringType)
PathArgument == Argument(<<"path">>, PathType)
ModeArgument == Argument(<<"mode">>, ChoiceType(<<"fast", "slow">>))

ParamLists ==
    { <<>>, <<Flag>>, <<PathArgument, FormatOption>>, <<FormatOption, ModeArgument, Flag>>,
      <<ModeArgument, NameOption>> }

HelpInputs == { <<>>, <<"Shell completion management">> }

\* cli with the leaf alpha (registered under key), then the group dev
\* holding format and, when nested, the group completion holding sync.
Graph(key, help, p, nested) ==
    Group("cli", <<"ehAye Core CLI">>, p[1],
          << <<key, Command("alpha", help, p[2])>>,
             <<"dev", Group("dev", help, p[3],
                            << <<"format", Command("format", <<>>, p[2])>> >>
                            \o (IF nested
                                THEN << <<"completion",
                                          Group("completion", help, <<>>,
                                                << <<"sync", Command("sync", <<>>, p[1])>> >>)>> >>
                                ELSE <<>>))>> >>)

Graphs ==
    { Graph(key, help, p, nested) :
        key \in {"alpha", "a"}, help \in HelpInputs, p \in [1..3 -> ParamLists],
        nested \in BOOLEAN }

NoInfo == [pc |-> "none", cli |-> <<>>, cli_info |-> <<>>]

\* cli_info = get_command_info(cli)
extract ==
    /\ info.pc = "none"
    /\ info' = [info EXCEPT !.pc = "done", !.cli_info = get_command_info(info.cli)]
    /\ UNCHANGED syncVars
    /\ UNCHANGED <<reg, req, gen, shell, test, walk>>

\* The caller has the tree; the next call builds it afresh.
extract_returns ==
    /\ info.pc = "done"
    /\ info' = [info EXCEPT !.pc = "none", !.cli_info = <<>>]
    /\ UNCHANGED syncVars
    /\ UNCHANGED <<reg, req, gen, shell, test, walk>>

(***************************************************************************)
(* The completion test battery, commands/tests/test_cmd_completion.py, and *)
(* the command that runs it, `dev completion test`                         *)
(* (commands/subs/dev/completion.py, lines 20-39).  What the checks see of *)
(* the command tree is the names of the root's commands and of dev's.      *)
(***************************************************************************)
expected_commands == {"build", "dev", "package", "proj", "release"}
expected_dev == {"format", "lint", "typecheck", "test", "all", "precommit"}

RootInputs == {expected_commands, expected_commands \ {"release"}, expected_commands \ {"dev"}}
DevInputs == {expected_dev \cup {"completion"}, expected_dev, expected_dev \ {"precommit"}}

\* What extraction and synthesis do when a check calls them.
CheckFaults == {"none", "extract_error", "synth_error"}

\* Lines 17-30: the assertions hold of whatever get_command_info and
\* generate_completion_script return; the check fails when one of the two
\* raises.
test_completion_generation(fault) == fault = "none"

\* Lines 33-52: get_command_info, then the root's commands and dev's
\* include the expected ones (a root without dev fails the first assert).
test_command_structure(fault, root, dev) ==
    /\ fault \notin {"extract_error"}
    /\ expected_commands \subseteq root
    /\ expected_dev \subseteq dev

Line(check, passed) == [check |-> check, passed |-> passed]

\* Mutant: the battery stops at the first check that fails.
run_tests_stopping(fault1, fault2, root, dev) ==
    LET first == test_completion_generation(fault1)
        second == test_command_structure(fault2, root, dev)
    IN IF ~first
       THEN [lines |-> <<Line("Completion generation", first)>>, success |-> FALSE]
       ELSE [lines |-> <<Line("Completion generation", first),
                         Line("Command structure", second)>>,
             success |-> second]

\* Lines 56-73: each check in its own try/except Exception, one line
\* printed per check, success cleared by a failure.
run_tests(fault1, fault2, root, dev) ==
    LET first == test_completion_generation(fault1)
        second == test_command_structure(fault2, root, dev)
        success1 == IF first THEN TRUE ELSE FALSE
        success2 == IF second THEN success1 ELSE FALSE
    IN [lines |-> <<Line("Completion generation", first),
                    Line("Command structure", second)>>,
        success |-> success2]

NoTest == [pc |-> "none", via |-> "", root |-> {}, dev |-> {}, fault1 |-> "none",
           fault2 |-> "none", lines |-> <<>>, returncode |-> -1, echo |-> <<>>,
           raised |-> "none", status |-> -1]

\* Lines 76-82 of the battery, run as a script: the imports of lines 10-14,
\* run_tests, the summary line and the exit status.  A failing import ends
\* the process with a traceback and status 1 before any check.
battery(t, import_fault, fault1, fault2) ==
    IF import_fault # "none"
    THEN [t EXCEPT !.returncode = 1, !.raised = import_fault]
    ELSE LET r == run_tests(fault1, fault2, t.root, t.dev) IN
         [t EXCEPT !.fault1 = fault1, !.fault2 = fault2,
                   !.lines = Append(r.lines,
                                    Line("summary", r.success)),
                   !.returncode = IF r.success THEN 0 ELSE 1]

\* python test_cmd_completion.py, from a shell.
run_battery(import_fault, fault1, fault2) ==
    /\ test.pc = "none"
    /\ LET t == battery([test EXCEPT !.via = "script"], import_fault, fault1, fault2) IN
       test' = [t EXCEPT !.pc = "done", !.status = t.returncode]
    /\ UNCHANGED syncVars
    /\ UNCHANGED <<reg, req, gen, shell, info, walk>>

\* What subprocess.run(["python", "tests/commands/test_cmd_completion.py"])
\* comes to: no python on PATH (FileNotFoundError), no such file under the
\* working directory (python exits 2), or the battery runs.
Launches == {"python_missing", "script_missing", "runs"}

\* Lines 20-39 under main() of commands/main.py (lines 52-58): an exception
\* of the command ends the program with status 1.
test_completion(launch, import_fault, fault1, fault2) ==
    /\ test.pc = "none"
    /\ LET t0 == [test EXCEPT !.via = "command",
                              !.echo = <<"Running completion tests...">>]
           t == IF launch = "runs" THEN battery(t0, import_fault, fault1, fault2)
                ELSE IF launch = "script_missing" THEN [t0 EXCEPT !.returncode = 2]
                ELSE [t0 EXCEPT !.raised = "FileNotFoundError"]
       IN test' =
             IF launch = "python_missing"
             THEN [t EXCEPT !.pc = "done", !.status = 1]
             ELSE IF t.returncode # 0
             THEN [t EXCEPT !.pc = "done", !.status = 1,
                            !.echo = Append(@, "Completion tests failed!")]
             ELSE [t EXCEPT !.pc = "done", !.status = 0,
                            !.echo = Append(@, "Completion tests passed!")]
    /\ UNCHANGED syncVars
    /\ UNCHANGED <<reg, req, gen, shell, info, walk>>

\* The process is over.
test_returns ==
    /\ test.pc = "done"
    /\ test' = [NoTest EXCEPT !.root = test.root, !.dev = test.dev]
    /\ UNCHANGED syncVars
    /\ UNCHANGED <<reg, req, gen, shell, info, walk>>

\* An f-string of Python renders the doubled braces of its literal text
\* as single ones; a plain string keeps them.
render_fstring(text) == replace_all(replace_all(text, "{{", "{"), "}}", "}")

\* Line 185, inside the f-string of lines 181-224: the line that opens the
\* function, as emitted.
function_open == render_fstring("_ehaye_cli_completions() {{")

\* Line 240, inside the plain string of lines 234-255: the line that is to
\* close the function, as emitted.
function_close == "}}"

\* Lines 234-240, the start of the plain string of lines 234-255, as
\* emitted: the arm of unknown commands, the end of the case statement and
\* the line that is to close the function.
trailer ==
    << "        *)",
       "            if [[ \"${{cur}}\" == -* ]]; then",
       "                COMPREPLY=($(compgen -W \"--help\" -- \"${{cur}}\"))",
       "            fi",
       "            ;;",
       "    esac",
       function_close >>

\* The shells the artifact is written for, and what a shell can make of
\* the emitted closing line.  bash takes `}}` as an ordinary word: the
\* function body runs on to the end of the file and the file is rejected
\* (syntax error: unexpected end of file).  What zsh makes of that line is
\* either outcome.
Families == {"bash", "zsh"}
Readings == {"syntax_error", "parsed"}

reading(family, zsh_reading) ==
    IF function_close = "}" THEN "parsed"
    ELSE IF family = "bash" THEN "syntax_error"
    ELSE zsh_reading

NoShell == [pc |-> "none", family |-> "", interactive |-> FALSE, loaded |-> FALSE,
            defined |-> FALSE, handler |-> ""]

\* A shell of the given family sources the artifact.  Line 183 runs before
\* the function is read; lines 242-254 run only if the function was read:
\* [[ $- == *i* ]], then complete -F for the shell whose version variable
\* is set.
source(family, interactive, zsh_reading) ==
    /\ shell.pc = "none" /\ gen.pc = "none"
    /\ LET parsed == reading(family, zsh_reading) = "parsed" IN
       shell' = [pc |-> "sourced", family |-> family, interactive |-> interactive,
                 loaded |-> TRUE,
                 defined |-> parsed,
                 handler |-> IF parsed /\ interactive /\ family \in {"bash", "zsh"}
                             THEN "_ehaye_cli_completions" ELSE ""]
    /\ UNCHANGED syncVars
    /\ UNCHANGED extVars
    /\ UNCHANGED <<reg, req, gen>>

\* The shell session is over.
source_returns ==
    /\ shell.pc = "sourced"
    /\ shell' = NoShell
    /\ UNCHANGED syncVars
    /\ UNCHANGED extVars
    /\ UNCHANGED <<reg, req, gen>>

(***************************************************************************)
(* The two recursions over a command tree, one call or return at a time:   *)
(* get_command_info (lines 11-42) over the click graph, and the loop of    *)
(* generate_completion_script (lines 227-232) with generate_completion_case*)
(* (lines 45-172) over the extracted tree.  A frame of the call stack is   *)
(* [node, path, depth, next]: the node the call is about, the names that   *)
(* lead to it, its depth, and the item its loop handles next.  Every call  *)
(* is recorded in visits when it is entered.                               *)
(***************************************************************************)
MaxDepth == 2

ChildNames == <<"a", "b">>

\* The shapes of trees of depth at most d: a shape is the sequence of the
\* shapes of its children.
RECURSIVE Shapes(_)
Shapes(d) ==
    IF d = 0 THEN {<<>>} ELSE SeqsUpTo(Shapes(d - 1), Len(ChildNames))

RECURSIVE ClickOf(_, _)
ClickOf(shape, name) ==
    IF shape = <<>> THEN Command(name, <<>>, <<Flag>>)
    ELSE Group(name, <<>>, <<Flag>>,
               [i \in 1..Len(shape) |-> <<ChildNames[i], ClickOf(shape[i], ChildNames[i])>>])

Walkers == {"get_command_info", "generate_completion_case"}

\* Lines 38-40 and lines 93-95: the items the loop of a call runs over.
subcommand_items(fn, node) ==
    IF fn = "get_command_info"
    THEN (IF node.class = "Group" THEN node.commands ELSE <<>>)
    ELSE node.subcommands

\* Mutant: the recursive call passes its own depth on.
child_depth_same(depth) == depth

\* Line 95: generate_completion_case(subcmd_info, depth + 1)
child_depth(depth) == depth + 1

NoWalk == [pc |-> "none", fn |-> "", tree |-> <<>>, stack |-> <<>>, visits |-> <<>>]

\* The outermost call: get_command_info(cli), or the loop of
\* generate_completion_script over the root's commands.
walk_call ==
    /\ walk.pc = "none"
    /\ walk.fn \in Walkers
    /\ walk' = [walk EXCEPT
                  !.pc = "running",
                  !.stack = <<[node |-> walk.tree, path |-> <<>>, depth |-> 0, next |-> 1]>>,
                  !.visits = IF walk.fn = "get_command_info"
                             THEN <<[path |-> <<>>, depth |-> 0]>> ELSE <<>>]
    /\ UNCHANGED syncVars
    /\ UNCHANGED <<reg, req, gen, shell, info, test>>

\* The loop of the innermost call reaches an item and calls itself on it:
\* line 40, line 230 (depth defaults to 0), line 95.
walk_descend ==
    /\ walk.pc = "running"
    /\ LET top == walk.stack[Len(walk.stack)]
           items == subcommand_items(walk.fn, top.node)
       IN /\ top.next <= Len(items)
          /\ LET item == items[top.next]
                 depth == IF walk.fn = "get_command_info" THEN Len(walk.stack)
                          ELSE IF Len(walk.stack) = 1 THEN 0
                          ELSE child_depth(top.depth)
                 frame == [node |-> item[2], path |-> top.path \o <<item[1]>>,
                           depth |-> depth, next |-> 1]
             IN walk' = [walk EXCEPT
                           !.stack = [walk.stack EXCEPT ![Len(walk.stack)].next = top.next + 1]
                                     \o <<frame>>,
                           !.visits = walk.visits \o <<[path |-> frame.path, depth |-> depth]>>]
    /\ UNCHANGED syncVars
    /\ UNCHANGED <<reg, req, gen, shell, info, test>>

\* The loop of the innermost call is over: line 42, line 172, line 232.
walk_return ==
    /\ walk.pc = "running"
    /\ LET top == walk.stack[Len(walk.stack)]
       IN /\ top.next > Len(subcommand_items(walk.fn, top.node))
          /\ walk' = [walk EXCEPT
                        !.stack = SubSeq(walk.stack, 1, Len(walk.stack) - 1),
                        !.pc = IF Len(walk.stack) = 1 THEN "done" ELSE "running"]
    /\ UNCHANGED syncVars
    /\ UNCHANGED <<reg, req, gen, shell, info, test>>

GenIdle == NoCompletion

SyncInit ==
    /\ clock = 0
    /\ srcVer = 0
    /\ srcExists \in [Sources -> BOOLEAN]
    /\ srcMtime = [f \in Sources |-> 0]
    /\ artifact \in {Absent, [exists |-> TRUE, mtime |-> 0,
                            content |-> add_loaded_marker(ScriptOf(0)), seen |-> 0]}
    /\ run = [p \in Procs |-> Idle]
    /\ last = Idle
    /\ reg = NoRegistry([m \in Modules |-> "ok"])
    /\ req = NoRequest
    /\ gen = GenIdle
    /\ shell = NoShell
    /\ info = NoInfo
    /\ test = NoTest
    /\ walk = NoWalk

SyncNext ==
    \/ \E p \in Procs, bad \in StatFaults : sync_check(p, bad, TRUE)
    \/ \E p \in Procs, fault \in GenFaults : sync_generate(p, fault)
    \/ \E p \in Procs, fault \in IoFaults : sync_open(p, fault)
    \/ \E p \in Procs : sync_write_block(p)
    \/ \E p \in Procs, fault \in IoFaults : sync_write(p, fault)
    \/ \E p \in Procs : sync_exit(p)
    \/ Tick
    \/ \E f \in Sources : Touch(f)

SpecSync == SyncInit /\ [][SyncNext]_vars

\* Two sync processes with nothing that keeps them apart, each running sync
\* once, and no fault.
RaceNext ==
    \/ \E p \in Procs : sync_check(p, {}, FALSE)
    \/ \E p \in Procs : sync_generate(p, "none")
    \/ \E p \in Procs : sync_open(p, "none")
    \/ \E p \in Procs : sync_write_block(p)
    \/ \E p \in Procs : sync_write(p, "none")
    \/ Tick
    \/ \E f \in Sources : Touch(f)

SpecRace == SyncInit /\ [][RaceNext]_vars

RegInit ==
    /\ \E m \in Modules, h \in Health :
          reg = NoRegistry([[x \in Modules |-> "ok"] EXCEPT ![m] = h])
    /\ req = NoRequest
    /\ gen = GenIdle
    /\ shell = NoShell
    /\ info = NoInfo
    /\ test = NoTest
    /\ walk = NoWalk
    /\ clock = 0
    /\ srcVer = 0
    /\ srcExists = [f \in Sources |-> TRUE]
    /\ srcMtime = [f \in Sources |-> 0]
    /\ artifact = Absent
    /\ run = [p \in Procs |-> Idle]
    /\ last = Idle

RegNext ==
    \/ get_completion_registry
    \/ get_available_commands
    \/ /\ req.pc = "none"
       /\ \E command_path \in PathInputs, args \in ArgInputs,
             incomplete \in IncompleteInputs, env \in EnvInputs :
             get_completions(command_path, args, incomplete, env)
    \/ /\ req.pc = "none"
       /\ \E args \in ModularArgInputs, incomplete \in IncompleteInputs, env \in EnvInputs :
             get_modular_completions(args, incomplete, env)
    \/ request_returns

SpecReg == RegInit /\ [][RegNext]_vars

\* The option lists of the trees: alpha and the leaves below it declare the
\* same options, format and the root's beta declare theirs.
OptionInputs ==
    {o \in [1..3 -> OptionLists] :
        /\ o[1] = o[3]
        /\ FormatAlt \in Range(o) => o = <<FormatAlt, Format, FormatAlt>>}

GenInit ==
    /\ \E o \in OptionInputs : gen = [NoCompletion EXCEPT !.options = o]
    /\ shell = NoShell
    /\ info = NoInfo
    /\ test = NoTest
    /\ walk = NoWalk
    /\ reg = NoRegistry([m \in Modules |-> "ok"])
    /\ req = NoRequest
    /\ clock = 0
    /\ srcVer = 0
    /\ srcExists = [f \in Sources |-> TRUE]
    /\ srcMtime = [f \in Sources |-> 0]
    /\ artifact = Absent
    /\ run = [p \in Procs |-> Idle]
    /\ last = Idle

GenNext ==
    \/ /\ gen.pc = "none" /\ shell.pc = "none"
       /\ \E typed \in SeqsUpTo(TypedInputs, MaxTyped), cur \in CurInputs :
             complete(typed, cur)
    \/ complete_returns
    \/ \E family \in Families, interactive \in BOOLEAN, zsh_reading \in Readings :
          source(family, interactive, zsh_reading)
    \/ source_returns

SpecGen == GenInit /\ [][GenNext]_vars

InfoInit ==
    /\ \E cli \in Graphs : info = [NoInfo EXCEPT !.cli = cli]
    /\ test = NoTest
    /\ walk = NoWalk
    /\ gen = GenIdle
    /\ shell = NoShell
    /\ reg = NoRegistry([m \in Modules |-> "ok"])
    /\ req = NoRequest
    /\ clock = 0
    /\ srcVer = 0
    /\ srcExists = [f \in Sources |-> TRUE]
    /\ srcMtime = [f \in Sources |-> 0]
    /\ artifact = Absent
    /\ run = [p \in Procs |-> Idle]
    /\ last = Idle

InfoNext == extract \/ extract_returns

SpecInfo == InfoInit /\ [][InfoNext]_vars

\* The trees the recursions walk: every shape of depth at most MaxDepth.
WalkInit ==
    /\ \E fn \in Walkers, shape \in Shapes(MaxDepth) :
          walk = [NoWalk EXCEPT
                    !.fn = fn,
                    !.tree = IF fn = "get_command_info" THEN ClickOf(shape, "cli")
                             ELSE get_command_info(ClickOf(shape, "cli"))]
    /\ info = NoInfo
    /\ test = NoTest
    /\ gen = GenIdle
    /\ shell = NoShell
    /\ reg = NoRegistry([m \in Modules |-> "ok"])
    /\ req = NoRequest
    /\ clock = 0
    /\ srcVer = 0
    /\ srcExists = [f \in Sources |-> TRUE]
    /\ srcMtime = [f \in Sources |-> 0]
    /\ artifact = Absent
    /\ run = [p \in Procs |-> Idle]
    /\ last = Idle

WalkNext == walk_call \/ walk_descend \/ walk_return

\* The interpreter runs a call until it returns.
SpecWalk == WalkInit /\ [][WalkNext]_vars /\ WF_vars(WalkNext)

TestInit ==
    /\ \E root \in RootInputs, dev \in DevInputs :
          test = [NoTest EXCEPT !.root = root, !.dev = dev]
    /\ info = NoInfo
    /\ walk = NoWalk
    /\ gen = GenIdle
    /\ shell = NoShell
    /\ reg = NoRegistry([m \in Modules |-> "ok"])
    /\ req = NoRequest
    /\ clock = 0
    /\ srcVer = 0
    /\ srcExists = [f \in Sources |-> TRUE]
    /\ srcMtime = [f \in Sources |-> 0]
    /\ artifact = Absent
    /\ run = [p \in Procs |-> Idle]
    /\ last = Idle

TestNext ==
    \/ \E import_fault \in {"none", "ImportError"}, fault1 \in CheckFaults,
          fault2 \in CheckFaults :
          run_battery(import_fault, fault1, fault2)
    \/ \E launch \in Launches, import_fault \in {"none", "ImportError"},
          fault1 \in CheckFaults, fault2 \in CheckFaults :
          test_completion(launch, import_fault, fault1, fault2)
    \/ test_returns

SpecTest == TestInit /\ [][TestNext]_vars

(***************************************************************************)
(* Claims about sync.                                                      *)
(***************************************************************************)
\* The staleness condition as the specification words it: the artifact does
\* not exist, or some existing source file is newer than it.
Stale ==
    \/ ~artifact.exists
    \/ \E f \in Sources : srcExists[f] /\ srcMtime[f] > artifact.mtime

Failures == {"stat_error", "extract_error", "synth_error", "open_error", "write_error"}

\* C2: when a sync call that ended with success is followed by a second call
\* and no source file changed since the first call began, the second call
\* performs no write: it has reported "up to date" (or failed reading a
\* timestamp, without writing).
C2_SecondSyncDoesNotWrite ==
    \A p \in Procs :
        (/\ run[p].pc # "idle"
         /\ last.pc = "ended" /\ last.status = 0
         /\ ~last.dirty /\ ~run[p].dirty)
        => /\ run[p].pc = "done"
           /\ ~run[p].wrote
           /\ run[p].outcome \in {"uptodate", "stat_error"}
           /\ run[p].status = 0 => run[p].outcome = "uptodate"

\* C2 witness: the first call wrote the artifact, the second found it up to
\* date, and no source file changed meanwhile.
C2_Witness ==
    \E p \in Procs :
        /\ last.pc = "ended" /\ last.outcome = "generated" /\ last.wrote /\ ~last.dirty
        /\ run[p].pc = "done" /\ run[p].outcome = "uptodate" /\ ~run[p].dirty

\* C3: a sync call that reads the timestamps takes the regeneration branch
\* if and only if the artifact does not exist or an existing source file is
\* newer than it, and otherwise reports "up to date" leaving the artifact as
\* it was; a regeneration that ends without failure has overwritten the
\* artifact with the generated script.
C3_RegeneratesIffStale ==
    /\ [][\A p \in Procs :
            (run[p].pc = "idle" /\ run'[p].pc # "idle" /\ run'[p].outcome # "stat_error")
            => /\ (run'[p].pc = "regen") <=> Stale
               /\ (run'[p].pc = "done" /\ run'[p].outcome = "uptodate") <=> ~Stale
               /\ ~Stale => artifact' = artifact]_vars
    /\ [][\A p \in Procs :
            (run[p].pc # "done" /\ run'[p].pc = "done" /\ run'[p].outcome = "generated")
            => /\ artifact'.exists
               /\ artifact'.content = run[p].script
               /\ artifact'.mtime = clock]_vars
    /\ [][artifact' # artifact => \E p \in Procs : run[p].pc \in {"open", "write"}]_vars

\* C3 witness: the artifact existed (the previous call found it up to
\* date) and this call regenerated it because a source file was newer.
C3_Witness ==
    \E p \in Procs :
        /\ last.pc = "ended" /\ last.outcome = "uptodate"
        /\ run[p].pc = "done" /\ run[p].outcome = "generated"

\* C4: a finished sync call has exit status 0 exactly when it regenerated
\* the artifact or found it up to date, and status 1 on every failure
\* (reading a timestamp, extraction, synthesis, opening or writing).
C4_ExitStatus ==
    \A p \in Procs :
        run[p].pc = "done"
        => /\ run[p].outcome \in {"generated", "uptodate"} => run[p].status = 0
           /\ run[p].outcome \in Failures => run[p].status = 1
           /\ run[p].outcome \in {"generated", "uptodate"} \cup Failures

\* C4 witness: a call that failed reading a timestamp, outside the try
\* block, has ended.
C4_Witness ==
    \E p \in Procs : run[p].pc = "done" /\ run[p].outcome = "stat_error"

(***************************************************************************)
(* Claims about the registry and the router.                               *)
(***************************************************************************)
\* A request that went through get_completions has its answer.
Resolved ==
    /\ req.pc = "done"
    /\ req.op \in {"get_completions", "get_modular_completions"}
    /\ req.raised = "none"

\* The position of the last "." of p, 0 when p has none.
RECURSIVE LastDot(_, _)
LastDot(p, i) == IF i = 0 THEN 0 ELSE IF SubSeq(p, i, i) = "." THEN i ELSE LastDot(p, i - 1)

HasParent(p) == LastDot(p, Len(p)) > 0

\* p with exactly its last segment (and the dot before it) removed.
ParentOf(p) == SubSeq(p, 1, LastDot(p, Len(p)) - 1)

Registered(p) == p \in DOMAIN reg.completions

\* C5: a dotted path with a registered completer c is resolved by calling c
\* once, with the args and incomplete of the request, calling nothing else,
\* and returning what c returned.
C5_RegisteredPathCallsItsCompleter ==
    (Resolved /\ Registered(req.command_path))
    => LET c == reg.completions[req.command_path] IN
       /\ req.invoked = << <<c, req.args, req.incomplete>> >>
       /\ req.result = completer(c, req.args, req.incomplete, req.env)

\* C5 witness: a request for the registered path dev.format with arguments
\* has been answered with candidates.
C5_Witness ==
    /\ Resolved /\ req.command_path = "dev.format" /\ req.args # <<>>
    /\ req.result # <<>>

\* C6: a path that is not registered but whose direct parent path is, is
\* resolved by calling the parent's completer once with the original args
\* and incomplete, and returning its result.
C6_FallsBackToDirectParent ==
    (/\ Resolved /\ ~Registered(req.command_path)
     /\ HasParent(req.command_path) /\ Registered(ParentOf(req.command_path)))
    => LET c == reg.completions[ParentOf(req.command_path)] IN
       /\ req.invoked = << <<c, req.args, req.incomplete>> >>
       /\ req.result = completer(c, req.args, req.incomplete, req.env)

\* C6 witness: dev.format.extra was resolved by the completer of dev.format.
C6_Witness ==
    /\ Resolved /\ req.command_path = "dev.format.extra"
    /\ ~Registered("dev.format.extra") /\ ~Registered("dev")
    /\ Len(req.invoked) = 1 /\ req.invoked[1][1] = "complete_format"
    /\ req.result # <<>>

\* C7: a path that is not registered and whose direct parent path is not
\* registered (or that has a single segment) is resolved to the empty list
\* without calling any completer and without an exception, also when an
\* ancestor further up is registered.
C7_NoCompleterNoCandidates ==
    (/\ req.pc = "done"
     /\ \/ req.op = "get_completions"
        \/ req.op = "get_modular_completions" /\ reg.built
     /\ ~Registered(req.command_path)
     /\ ~(HasParent(req.command_path) /\ Registered(ParentOf(req.command_path))))
    => /\ req.raised = "none"
       /\ req.invoked = <<>>
       /\ req.result = <<>>

\* C7 witness: dev.format.extra.extra, two levels below the registered
\* dev.format, was resolved to nothing.
C7_Witness ==
    /\ Resolved /\ req.command_path = "dev.format.extra.extra"
    /\ Registered("dev.format") /\ ~Registered("dev.format.extra")
    /\ req.result = <<>>

\* C8: every candidate returned by get_completions or
\* get_modular_completions has incomplete as a leading substring.
C8_CandidatesStartWithIncomplete ==
    Resolved => \A i \in 1..Len(req.result) : startswith(req.result[i], req.incomplete)

\* C9: whatever is wrong with one module's contribution, discovery
\* completes: the registry is constructed, nothing is raised, and every
\* completer of every other module is registered.
C9_DiscoverySkipsBrokenContribution ==
    (req.pc = "done" /\ req.op \in {"get_completion_registry", "get_modular_completions"})
    => /\ req.raised = "none"
       /\ reg.built
       /\ \A m \in Modules :
             reg.health[m] = "ok" => Keys(m, COMPLETIONS(m)) \subseteq DOMAIN reg.completions

\* ------------------------------------------------------------------
\* Claims about the generated completion function (SpecGen)
\* ------------------------------------------------------------------

\* The partial word under the cursor of the completed call.
CurOf == word(gen.words, gen.cword)

\* The completed call offered the options of a node with no subcommand
\* selected below it, for a partial word beginning with a dash.
OfferedOptions ==
    /\ gen.pc = "done"
    /\ gen.how \in {"group_options", "leaf_options"}
    /\ is_dash(CurOf)

\* C10: at a leaf, or at a group with no subcommand typed yet, and for a
\* partial word beginning with a dash, no candidate is an option spelling
\* that occurs among the tokens typed before the cursor, whatever the
\* token's position and whether the spelling is short or long.
C10_TypedOptionsNotOffered ==
    OfferedOptions
    => \A i \in 1..(gen.cword - 1) :
          is_dash(word(gen.words, i)) => word(gen.words, i) \notin Range(gen.COMPREPLY)

\* The node of the tree the function was generated from that the sequence
\* of names path leads to, from the root.
RECURSIVE NodeUnder(_, _)
NodeUnder(node, path) ==
    IF path = <<>> THEN node
    ELSE NodeUnder(node.subcommands[first_arm(names_of(node.subcommands), path[1], 1)],
                   Tail(path))

NodeAt(path) == NodeUnder(cli_info(gen.options), path)

\* The token immediately before the cursor of the completed call.
PrevOf == word(gen.words, gen.cword - 1)

\* The options of node n that have choices and have w as a long spelling.
ChoiceOptions(n, w) ==
    {i \in 1..Len(n.options) :
        /\ n.options[i].choices # <<>>
        /\ is_dashdash(w)
        /\ w \in Range(n.options[i].names)}

\* C11: at every node whose case text the call ran (the node that answered
\* and its ancestors below the root), if the node declares an option with
\* choices and the token before the cursor is a long spelling of it, the
\* candidates are exactly that option's choices that start with the partial
\* word, in declared order, and that node is where completion stopped.
C11_ChoicesTakePrecedence ==
    (gen.pc = "done" /\ gen.cword > 1)
    => \A k \in 1..Len(gen.at) :
          LET n == NodeAt(SubSeq(gen.at, 1, k)) IN
          \A i \in ChoiceOptions(n, PrevOf) :
             /\ gen.at = SubSeq(gen.at, 1, k)
             /\ gen.COMPREPLY = SelectSeq(n.options[i].choices,
                                          LAMBDA ch : startswith(ch, CurOf))

\* C11 witness: --format was typed just before the partial word j at a node
\* declaring it with choices, and json alone was offered.
C11_Witness ==
    /\ gen.pc = "done" /\ gen.at # <<>>
    /\ ChoiceOptions(NodeAt(gen.at), PrevOf) # {}
    /\ PrevOf = "--format" /\ CurOf = "j"
    /\ gen.COMPREPLY = <<"json">>

\* The first position after pos and before cword whose word does not start
\* with a dash and is one of names, 0 if there is none.
RECURSIVE FirstNamed(_, _, _, _)
FirstNamed(words, cword, names, pos) ==
    IF pos + 1 >= cword THEN 0
    ELSE IF ~is_dash(word(words, pos + 1)) /\ word(words, pos + 1) \in Range(names)
         THEN pos + 1
    ELSE FirstNamed(words, cword, names, pos + 1)

\* The path of nodes the typed tokens select: from node, whose name token
\* is at pos, the first later token that names one of its subcommands
\* selects that subcommand, and so on below it.
RECURSIVE Selected(_, _, _, _)
Selected(node, words, cword, pos) ==
    LET i == FirstNamed(words, cword, names_of(node.subcommands), pos) IN
    IF i = 0 THEN <<>>
    ELSE <<word(words, i)>> \o
         Selected(node.subcommands[first_arm(names_of(node.subcommands), word(words, i), 1)],
                  words, cword, i)

IsPrefix(p, q) == Len(p) <= Len(q) /\ p = SubSeq(q, 1, Len(p))

\* C12: at every group node, the root included, the subcommand selected is
\* the first token after the node's position that does not start with a
\* dash and is a declared subcommand name, and completion continues in
\* that subcommand's arm: the node that answers is the one the typed
\* tokens select (or, when a choices check answered, one on the way to it).
C12_DispatchToFirstNamedSubcommand ==
    (gen.pc = "done" /\ gen.cword > 1)
    => LET sel == Selected(cli_info(gen.options), gen.words, gen.cword, 0) IN
       IF gen.how = "choices" THEN IsPrefix(gen.at, sel) ELSE gen.at = sel

\* C13: when the word being completed is the first after the program
\* name, the candidates are exactly the root's subcommand names that start
\* with the partial word, in the root's insertion order.
C13_RootOffersCommands ==
    (gen.pc = "done" /\ gen.cword = 1)
    => gen.COMPREPLY = SelectSeq(names_of(cli_info(gen.options).subcommands),
                                 LAMBDA name : startswith(name, CurOf))

\* C13 witness: `cli b` was completed to beta alone.
C13_Witness ==
    /\ gen.pc = "done" /\ gen.cword = 1 /\ CurOf = "b"
    /\ gen.COMPREPLY = <<"beta">>

\* C14: once the registry is constructed, a call of get_completions,
\* get_available_commands or get_modular_completions leaves the mapping
\* from dotted path to completer as it was.
C14_CallsLeaveRegistryUnchanged ==
    [][(/\ reg.built
        /\ req.pc = "none" /\ req'.pc = "done"
        /\ req'.op \in {"get_completions", "get_available_commands",
                        "get_modular_completions"})
       => reg'.completions = reg.completions]_vars

\* C14 witness: a path that is not registered was answered by its parent's
\* completer, and is still not registered.
C14_Witness ==
    /\ Resolved /\ reg.built
    /\ req.invoked # <<>>
    /\ req.command_path \notin DOMAIN reg.completions

\* C15: over any sequence of get_completion_registry and
\* get_modular_completions calls, discovery (_load_completion_modules) has
\* run exactly once when a call is over: at the first call, every later
\* call using the registry that run built.
C15_DiscoveryRunsOnce ==
    (req.pc = "done" /\ req.op \in {"get_completion_registry", "get_modular_completions"})
    => reg.loads = 1

\* C16: sourcing the generated artifact registers _ehaye_cli_completions
\* as the completion handler of the program name exactly when the shell is
\* interactive and is bash or zsh; a non-interactive shell gets no handler.
C16_HandlerRegisteredWhenInteractive ==
    shell.pc = "sourced"
    => (shell.handler = "_ehaye_cli_completions"
        <=> (shell.interactive /\ shell.family \in {"bash", "zsh"}))

(***************************************************************************)
(* Claims about extraction (SpecInfo).                                     *)
(***************************************************************************)
\* The option parameters of a command, in declaration order.
OptionParams(cmd) == SelectSeq(cmd.params, LAMBDA param : param.class = "Option")

\* node carries cmd's name, one options entry per option parameter of cmd
\* in declaration order, and the registered commands of the group cmd
\* under their names and in their order, each mirrored in turn; no
\* subcommand when cmd is not a group.
RECURSIVE Mirrors(_, _)
Mirrors(cmd, node) ==
    /\ node.name = cmd.name
    /\ Len(node.options) = Len(OptionParams(cmd))
    /\ \A i \in 1..Len(node.options) : node.options[i].names = OptionParams(cmd)[i].opts
    /\ IF cmd.class = "Group"
       THEN /\ Len(node.subcommands) = Len(cmd.commands)
            /\ \A i \in 1..Len(cmd.commands) :
                  /\ node.subcommands[i][1] = cmd.commands[i][1]
                  /\ Mirrors(cmd.commands[i][2], node.subcommands[i][2])
       ELSE node.subcommands = <<>>

\* C18: the node get_command_info returns mirrors the command graph: name,
\* one options entry per option parameter in declaration order (other
\* parameters omitted), the group's registered commands under the same
\* names in the same order, extracted recursively, and an empty
\* subcommands map for a command that is not a group.
C18_InfoMirrorsGraph ==
    info.pc = "done" => Mirrors(info.cli, info.cli_info)

\* C18 witness: a root with an argument among its parameters and a leaf
\* registered under another name than its own was extracted.
C18_Witness ==
    /\ info.pc = "done"
    /\ Len(info.cli_info.options) < Len(info.cli.params)
    /\ info.cli_info.subcommands[1][1] = "a"
    /\ info.cli_info.subcommands[1][2].name = "alpha"
    /\ Len(info.cli_info.subcommands[2][2].subcommands) = 2

\* Every options entry of node has the choices of its option's type in
\* declared order when the type is a click.Choice, and none otherwise;
\* likewise below node.
RECURSIVE ChoicesMirror(_, _)
ChoicesMirror(cmd, node) ==
    /\ \A i \in 1..Len(node.options) :
          node.options[i].choices =
             IF OptionParams(cmd)[i].type.class = "Choice"
             THEN OptionParams(cmd)[i].type.choices
             ELSE <<>>
    /\ \A i \in 1..Len(node.subcommands) :
          ChoicesMirror(cmd.commands[i][2], node.subcommands[i][2])

\* C19: for every option extracted, choices is the enumerated value set
\* of the option in declared order when its type is a finite enumerated
\* set, and the empty list for every other option.
C19_ChoicesOfEnumeratedOptions ==
    info.pc = "done" => ChoicesMirror(info.cli, info.cli_info)

\* C19 witness: the root's -f/--format was extracted with table, json, yaml
\* in that order, and its flag --debug with no choice.
C19_Witness ==
    /\ info.pc = "done"
    /\ Len(info.cli_info.options) = 2
    /\ info.cli_info.options[1].choices = <<"table", "json", "yaml">>
    /\ info.cli_info.options[2].names = <<"--debug">>
    /\ info.cli_info.options[2].choices = <<>>

(***************************************************************************)
(* Claims about the completion test battery (SpecTest).                    *)
(***************************************************************************)
\* The battery's process got as far as run_tests.
BatteryRan == test.pc = "done" /\ test.returncode # -1 /\ test.lines # <<>>

\* C17: the battery runs both of its checks whatever the first one did and
\* prints one result line per check, each saying whether the check's
\* assertions held; its status is 0 exactly when both held and 1
\* otherwise; and `dev completion test` ends with status 1 exactly when
\* the battery's process returned a nonzero status (0 otherwise).
C17_BatteryRunsEveryCheck ==
    /\ BatteryRan
       => /\ Len(test.lines) = 3
          /\ test.lines[1] = Line("Completion generation", test.fault1 = "none")
          /\ test.lines[2] = Line("Command structure",
                                  /\ test.fault2 # "extract_error"
                                  /\ expected_commands \subseteq test.root
                                  /\ expected_dev \subseteq test.dev)
          /\ test.returncode \in {0, 1}
          /\ test.returncode = 0 <=> (test.lines[1].passed /\ test.lines[2].passed)
    /\ (test.pc = "done" /\ test.via = "command" /\ test.returncode # -1)
       => /\ test.status \in {0, 1}
          /\ test.status = 1 <=> test.returncode # 0

\* C17 witness: run by the command, the first check failed, the second
\* one ran and passed, and both the battery and the command ended with 1.
C17_Witness ==
    /\ BatteryRan /\ test.via = "command"
    /\ ~test.lines[1].passed /\ test.lines[2].passed
    /\ test.returncode = 1 /\ test.status = 1

\* C20: for a node reached by dispatch at any depth, the token taken as
\* that node's subcommand is positioned after the node's own name token
\* and before the cursor, also when dash-prefixed tokens are interleaved
\* before the node's name: gen.pos, the positions of the tokens that
\* selected the nodes of the dispatch path, is strictly increasing.
C20_SubcommandTakenAfterNodePosition ==
    gen.pc = "done"
    => \A k \in 1..Len(gen.pos) :
          /\ gen.pos[k] < gen.cword
          /\ k > 1 => gen.pos[k] > gen.pos[k - 1]

\* q is p with some of its elements left out, the others in p's order.
RECURSIVE IsSubsequence(_, _)
IsSubsequence(q, p) ==
    IF q = <<>> THEN TRUE
    ELSE IF p = <<>> THEN FALSE
    ELSE IF q[1] = p[1] THEN IsSubsequence(Tail(q), Tail(p))
    ELSE IsSubsequence(q, Tail(p))

\* The spellings the options declare, in declaration order.
RECURSIVE Spellings(_)
Spellings(options) ==
    IF options = <<>> THEN <<>>
    ELSE Spellings(SubSeq(options, 1, Len(options) - 1)) \o options[Len(options)].names

\* The call was answered by a group node below the root, in the branch
\* taken when none of its subcommands has been typed.
AnsweredAtGroup ==
    /\ gen.pc = "done" /\ gen.at # <<>>
    /\ NodeAt(gen.at).subcommands # <<>>
    /\ gen.how # "choices"

\* C21: at a group node for which no subcommand token has been typed, a
\* partial word without a leading dash gets the node's subcommand names
\* that start with it, in insertion order; a partial word with a leading
\* dash gets only spellings of the node's own options, in insertion order,
\* each starting with the partial word.
C21_GroupOffersOwnNamesInOrder ==
    AnsweredAtGroup
    => IF is_dash(CurOf)
       THEN /\ IsSubsequence(gen.COMPREPLY, Spellings(NodeAt(gen.at).options))
            /\ \A i \in 1..Len(gen.COMPREPLY) : startswith(gen.COMPREPLY[i], CurOf)
       ELSE gen.COMPREPLY = SelectSeq(names_of(NodeAt(gen.at).subcommands),
                                      LAMBDA name : startswith(name, CurOf))

\* C21 witness: the group alpha, declaring -c/--check and --fix, answered
\* the partial word "-" with its three spellings in declared order.
C21_Witness ==
    /\ AnsweredAtGroup /\ gen.at = <<"alpha">> /\ CurOf = "-"
    /\ gen.COMPREPLY = <<"-c", "--check", "--fix">>

\* The tokens typed before the cursor of the completed call.
TypedBefore == {word(gen.words, i) : i \in 1..(gen.cword - 1)}

\* The call was answered by a leaf that declares options, past its
\* choices check.
AnsweredAtLeaf ==
    /\ gen.pc = "done" /\ gen.at # <<>>
    /\ NodeAt(gen.at).subcommands = <<>>
    /\ NodeAt(gen.at).options # <<>>
    /\ gen.how # "choices"

\* C22: at a leaf with options, the empty partial word and the partial
\* word "-" get the same candidates: the node's own option spellings
\* minus those already typed, in declared order.
C22_LeafEmptyAndDashAlike ==
    (AnsweredAtLeaf /\ CurOf \in {"", "-"})
    => gen.COMPREPLY = SelectSeq(Spellings(NodeAt(gen.at).options),
                                 LAMBDA spelling : spelling \notin TypedBefore)

(***************************************************************************)
(* C23.  On every finite command tree, get_command_info and the generation *)
(* of the case arms terminate, and each has then visited every node of the *)
(* tree exactly once: get_command_info every command, the root included,   *)
(* and generate_completion_case every command below the root, at the depth *)
(* that is the node's distance from its top-level command.                 *)
(***************************************************************************)
RECURSIVE PathsOf(_, _, _)
PathsOf(fn, node, path) ==
    {path} \cup
    UNION { PathsOf(fn, subcommand_items(fn, node)[i][2],
                    path \o <<subcommand_items(fn, node)[i][1]>>) :
              i \in 1..Len(subcommand_items(fn, node)) }

VisitedOnce ==
    LET all == PathsOf(walk.fn, walk.tree, <<>>)
        due == IF walk.fn = "get_command_info" THEN all ELSE all \ {<<>>}
    IN /\ {walk.visits[i].path : i \in 1..Len(walk.visits)} = due
       /\ Len(walk.visits) = Cardinality(due)
       /\ \A i \in 1..Len(walk.visits) :
             walk.visits[i].depth =
                IF walk.fn = "get_command_info" THEN Len(walk.visits[i].path)
                ELSE Len(walk.visits[i].path) - 1

C23_WalksTerminateVisitingEachNodeOnce ==
    /\ <>(walk.pc = "done")
    /\ [](walk.pc = "done" => VisitedOnce)

C23_Witness ==
    /\ walk.pc = "done"
    /\ walk.fn = "generate_completion_case"
    /\ Len(walk.visits) >= 4
    /\ \E i \in 1..Len(walk.visits) : walk.visits[i].depth = 1

(***************************************************************************)
(* C24.  What a successful sync writes is the text generate_completion_    *)
(* script returns for a tree of the sources, byte for byte, and the line   *)
(* export _ehaye_cli_completions_loaded=1 occurs in it exactly once.       *)
(***************************************************************************)
LinesOf(text) == split(text, "\n")

Occurrences(text, line) ==
    Cardinality({i \in 1..Len(LinesOf(text)) : LinesOf(text)[i] = line})

C24_ArtifactIsTheGeneratedScript ==
    [][\A p \in Procs :
          (run[p].pc = "write" /\ run'[p].outcome = "generated")
          => /\ \E v \in 0..MaxTouches : artifact'.content = ScriptOf(v)
             /\ Occurrences(artifact'.content, LoadedMarker) = 1]_vars

(***************************************************************************)
(* C25.  When a sync call reports "up to date", no source file has been    *)
(* saved since the artifact was last written, also when the save bears the *)
(* same timestamp as the artifact's last write.                            *)
(***************************************************************************)
ModifiedSinceWrite == srcVer > artifact.seen

C26_FailureLeavesArtifactAlone ==
    /\ [][\A p \in Procs :
            (run[p].pc # "done" /\ run'[p].pc = "done" /\ run'[p].outcome \in Failures)
            => /\ artifact'.exists = run'[p].before.exists
               /\ artifact'.content = run'[p].before.content]_vars
    /\ [][\A p \in Procs :
            (run[p].pc = "idle" /\ run'[p].pc = "done" /\ run'[p].outcome = "uptodate")
            => artifact.content # NoText]_vars

(***************************************************************************)
(* C27.  When two sync processes that saw the same source files have both  *)
(* completed without failure, however their steps interleaved, the         *)
(* artifact holds the complete generated script: it is neither truncated   *)
(* nor a mix.                                                              *)
(***************************************************************************)
Completed(p) == run[p].pc = "done" /\ run[p].outcome \in {"generated", "uptodate"}

C27_ConcurrentSyncsLeaveCompleteScript ==
    \A p, q \in Procs :
        (/\ p # q
         /\ Completed(p) /\ Completed(q)
         /\ ~run[p].dirty /\ ~run[q].dirty
         /\ run[p].outcome = "generated")
        => artifact.content = run[p].script

\* C27 witness: both processes found the artifact absent, so they ran at
\* the same time, and both wrote it.
C27_Witness ==
    /\ \A p \in Procs :
          /\ Completed(p) /\ run[p].outcome = "generated" /\ ~run[p].dirty
          /\ ~run[p].before.exists
    /\ artifact.content # NoText

(***************************************************************************)
(* C28.  When the typed tokens are the names that lead to a node, one      *)
(* after the other, and the token before the cursor is a long option that  *)
(* this node declares with choices, the candidates are this node's choices *)
(* that start with the partial word, also when an ancestor declares an     *)
(* option of the same spelling with other choices.                         *)
(***************************************************************************)
TypedPath == [i \in 1..(gen.cword - 2) |-> word(gen.words, i)]

GroupEntries(G) == {item \in Range(COMPLETIONS(G)) : item[1] = G}

C29_GroupCompleterReachableUnderItsName ==
    (/\ req.pc = "done" /\ req.op = "get_modular_completions" /\ req.raised = "none"
     /\ Len(req.args) = 1
     /\ req.args[1] \in Modules
     /\ reg.health[req.args[1]] = "ok")
    => \A item \in GroupEntries(req.args[1]) :
          /\ Len(req.invoked) = 1
          /\ req.invoked[1][1] = item[2]
          /\ req.result = completer(item[2], req.args, req.incomplete, req.env)

(***************************************************************************)
(* C30.  The trailing part of the script a shell sources is written with   *)
(* single braces: it refers to the partial word as ${cur}, holds no        *)
(* doubled brace, and ends the function with a single closing brace, so    *)
(* that bash reads one closed function definition.                         *)
(***************************************************************************)
C30_TrailerUsesSingleBraces ==
    shell.pc = "sourced"
    => /\ \A i \in 1..Len(trailer) :
             find(trailer[i], "{{", 1) = 0 /\ find(trailer[i], "}}", 1) = 0
       /\ \E i \in 1..Len(trailer) : find(trailer[i], "${cur}", 1) > 0
       /\ trailer[Len(trailer)] = "}"
       /\ shell.family = "bash" => shell.defined

====
